---------------------------- MODULE Spec2Model ----------------------------
(***************************************************************************)
(* A model of the AMPL-2023 compiler front-end: the recursive-descent      *)
(* parser and type checker of amplc.c, the two-scope symbol table of       *)
(* symboltable.c and the chained hash table of hashtable.c.                *)
(*                                                                         *)
(* The parser is a stack machine: one frame per active parse routine, one  *)
(* action per routine, and the tokens of the source file are revealed one  *)
(* at a time as get_token asks for them.                                   *)
(***************************************************************************)
EXTENDS Integers, Sequences, FiniteSets, TLC

VARIABLES
    token,         \* amplc.c: the lookahead token
    position,      \* the scanner's current source position
    pending,       \* tokens of the source already fixed, not yet scanned
    budget,        \* how many further free tokens the source may hold
    alphabet,      \* the token kinds the free part of the source draws from
    ntok,          \* number of tokens scanned so far
    origin0,       \* source position of the first token of the file
    stack,         \* the C call stack: frames of the active parse routines
    ret,           \* the ValType last written through a *t0 out-parameter
    heap,          \* the hash tables allocated so far, by address
    table,         \* symboltable.c: address of the active scope table
    saved_table,   \* symboltable.c: address of the saved outer scope table
    curr_offset,   \* symboltable.c: current frame width
    saved_offset,  \* symboltable.c: frame width saved by open_subroutine
    return_type,   \* amplc.c: return type of the current subroutine
    status,        \* "running", "accepted", "rejected" or "crashed"
    diags,         \* the diagnostics issued so far, in order
    hist           \* history of the compile, for stating properties

vars == <<token, position, pending, budget, alphabet, ntok, origin0, stack,
          ret, heap, table, saved_table, curr_offset, saved_offset,
          return_type, status, diags, hist>>

-----------------------------------------------------------------------------
(* Bounds of the model. *)

\* number of free tokens a source may hold after its fixed prefix
MaxFree == 3

\* distance in columns between the starts of two consecutive tokens
Stride == 2

-----------------------------------------------------------------------------
(* Value types (valtypes.h): a bit set. *)

TYPE_NONE == 0
TYPE_ARRAY == 1
TYPE_BOOLEAN == 2
TYPE_INTEGER == 4
TYPE_CALLABLE == 8

RECURSIVE BitAnd(_, _)
BitAnd(a, b) ==
    IF a = 0 \/ b = 0 THEN 0
    ELSE (IF (a % 2) = 1 /\ (b % 2) = 1 THEN 1 ELSE 0)
         + 2 * BitAnd(a \div 2, b \div 2)

RECURSIVE BitXor(_, _)
BitXor(a, b) ==
    IF a = 0 THEN b
    ELSE IF b = 0 THEN a
    ELSE (((a % 2) + (b % 2)) % 2) + 2 * BitXor(a \div 2, b \div 2)

BitOr(a, b) == a + b - BitAnd(a, b)

IS_ARRAY_TYPE(t) == BitAnd(t, TYPE_ARRAY) = TYPE_ARRAY
IS_BOOLEAN_TYPE(t) == BitAnd(t, TYPE_BOOLEAN) = TYPE_BOOLEAN
IS_INTEGER_TYPE(t) == BitAnd(t, TYPE_INTEGER) = TYPE_INTEGER
IS_CALLABLE_TYPE(t) == BitAnd(t, TYPE_CALLABLE) = TYPE_CALLABLE
IS_ARRAY(t) == IS_ARRAY_TYPE(t) /\ ~IS_CALLABLE_TYPE(t)
IS_PROCEDURE(t) == t = TYPE_CALLABLE
IS_FUNCTION(t) == IS_CALLABLE_TYPE(t) /\ ~IS_PROCEDURE(t)
SET_RETURN_TYPE(t) == BitAnd(t, 7)

-----------------------------------------------------------------------------
(* Identifiers.  A name is a string; Chars gives its characters, which the   *)
(* hash function reads.                                                      *)

Names == {"f", "g", "a", "n"}

\* further identifiers of the programs with expressions
MoreNames == {"b", "h", "x"}

\* the lower-case letters; an identifier of the model is one letter
Letters ==
    <<"a", "b", "c", "d", "e", "f", "g", "h", "i", "j", "k", "l", "m",
      "n", "o", "p", "q", "r", "s", "t", "u", "v", "w", "x", "y", "z">>

\* the character codes of an identifier of one letter ('a' is 97) or of two
\* of the letters a to d
Chars(id) ==
    CASE id = "a" -> <<97>> [] id = "b" -> <<98>> [] id = "c" -> <<99>>
      [] id = "d" -> <<100>> [] id = "e" -> <<101>> [] id = "f" -> <<102>>
      [] id = "g" -> <<103>> [] id = "h" -> <<104>> [] id = "i" -> <<105>>
      [] id = "j" -> <<106>> [] id = "k" -> <<107>> [] id = "l" -> <<108>>
      [] id = "m" -> <<109>> [] id = "n" -> <<110>> [] id = "o" -> <<111>>
      [] id = "p" -> <<112>> [] id = "q" -> <<113>> [] id = "r" -> <<114>>
      [] id = "s" -> <<115>> [] id = "t" -> <<116>> [] id = "u" -> <<117>>
      [] id = "v" -> <<118>> [] id = "w" -> <<119>> [] id = "x" -> <<120>>
      [] id = "y" -> <<121>> [] id = "z" -> <<122>>
      [] id = "aa" -> <<97, 97>> [] id = "ab" -> <<97, 98>>
      [] id = "ac" -> <<97, 99>> [] id = "ad" -> <<97, 100>>
      [] id = "ba" -> <<98, 97>> [] id = "bb" -> <<98, 98>>
      [] id = "bc" -> <<98, 99>> [] id = "bd" -> <<98, 100>>
      [] id = "ca" -> <<99, 97>> [] id = "cb" -> <<99, 98>>
      [] id = "cc" -> <<99, 99>> [] id = "cd" -> <<99, 100>>
      [] id = "da" -> <<100, 97>> [] id = "db" -> <<100, 98>>
      [] id = "dc" -> <<100, 99>> [] id = "dd" -> <<100, 100>>
      [] OTHER -> <<>>

\* An unsigned int of the build has 32 bits; it is held as two 16-bit
\* halves, hi * 2^16 + lo.
Half == 65536

\* hash << 5
Shl5(h) ==
    [hi |-> (h.hi * 32 + (h.lo \div 2048)) % Half, lo |-> (h.lo * 32) % Half]

\* (hash << 5) ^ c, for a character c
RECURSIVE ShiftHashLoop(_, _)
ShiftHashLoop(hash, str) ==
    IF str = <<>> THEN hash
    ELSE ShiftHashLoop([Shl5(hash) EXCEPT !.lo = BitXor(@, Head(str))],
                       Tail(str))

\* hash % size
shift_hash(key, size) ==
    LET h == ShiftHashLoop([hi |-> 0, lo |-> 0], Chars(key))
    IN  (h.hi * (Half % size) + h.lo) % size

\* strcmp on the character codes: the difference of the first two characters
\* that differ, the end of a string counting as 0
RECURSIVE strcmp(_, _)
strcmp(c1, c2) ==
    IF c1 = <<>> /\ c2 = <<>> THEN 0
    ELSE IF c1 = <<>> THEN 0 - Head(c2)
    ELSE IF c2 = <<>> THEN Head(c1)
    ELSE IF Head(c1) # Head(c2) THEN Head(c1) - Head(c2)
    ELSE strcmp(Tail(c1), Tail(c2))

key_strcmp(k1, k2) == strcmp(Chars(k1), Chars(k2))

-----------------------------------------------------------------------------
(* The hash table (hashtable.c).  A table is a record: size, num_entries   *)
(* and the bucket array, each bucket a chain of entries, head first.        *)

InitialSize == 13

delta == <<0, 0, 1, 1, 3, 1, 3, 1, 5, 3, 3, 9, 3, 1, 3, 19,
           15, 1, 5, 1, 3, 9, 3, 15, 3, 39, 5, 39, 57, 3, 35, 1>>

EXIT_SUCCESS == 0
EXIT_FAILURE == 1
HASH_TABLE_KEY_VALUE_PAIR_EXISTS == -1

ht_init ==
    [size |-> InitialSize, num_entries |-> 0,
     buckets |-> [i \in 0 .. InitialSize - 1 |-> <<>>]]

RECURSIVE GetSizeLoop(_, _, _)
GetSizeLoop(num, power, size) ==
    IF num * 2 >= size THEN [num |-> num * 2, power |-> power + 1]
    ELSE GetSizeLoop(num * 2, power + 1, size)

\* getsize without the step down from the power of two to a prime
getsize_power_of_two(ht) ==
    LET r == GetSizeLoop(2, 1, ht.size)
    IN  r.num * 2

\* delta[] is indexed from 0 in the code
getsize(ht) ==
    LET r == GetSizeLoop(2, 1, ht.size)
    IN  r.num * 2 - delta[r.power + 1 + 1]

ChainHas(chain, key) ==
    \E i \in 1 .. Len(chain) : key_strcmp(key, chain[i].key) = 0

RECURSIVE RehashChain(_, _, _)
RehashChain(newTable, chain, newSize) ==
    IF chain = <<>> THEN newTable
    ELSE LET e == Head(chain)
             h == shift_hash(e.key, newSize)
         IN  RehashChain([newTable EXCEPT ![h] = <<e>> \o @],
                         Tail(chain), newSize)

RECURSIVE RehashBuckets(_, _, _, _)
RehashBuckets(newTable, ht, i, newSize) ==
    IF i >= ht.size THEN newTable
    ELSE RehashBuckets(RehashChain(newTable, ht.buckets[i], newSize),
                       ht, i + 1, newSize)

rehash(ht) ==
    LET newSize == getsize(ht)
        empty == [i \in 0 .. newSize - 1 |-> <<>>]
    IN  [ht EXCEPT !.buckets = RehashBuckets(empty, ht, 0, newSize),
                   !.size = newSize]

\* the load factor test on the entries before the insert
OverLoad_entries(ht) == 4 * ht.num_entries > 3 * ht.size

\* max_loadfactor is 0.75f: (n + 1) / size > 3/4
OverLoad(ht) == 4 * (ht.num_entries + 1) > 3 * ht.size

\* ht_insert from the second hash of the key: the new entry becomes the
\* head of its chain in ht1, the table after the load test
InsertEntry(ht1, key, value) ==
    [rc |-> EXIT_SUCCESS,
     ht |-> [ht1 EXCEPT !.buckets[shift_hash(key, ht1.size)] =
                            <<[key |-> key, value |-> value]>> \o @,
                        !.num_entries = @ + 1]]

\* the result code and the table after the call
ht_insert(ht, key, value) ==
    IF ChainHas(ht.buckets[shift_hash(key, ht.size)], key)
    THEN [rc |-> HASH_TABLE_KEY_VALUE_PAIR_EXISTS, ht |-> ht]
    ELSE InsertEntry(IF OverLoad(ht) THEN rehash(ht) ELSE ht, key, value)

\* the value NULL of a void pointer
NULL == [null |-> TRUE]

RECURSIVE ChainSearch(_, _)
ChainSearch(chain, key) ==
    IF chain = <<>> THEN NULL
    ELSE IF key_strcmp(key, Head(chain).key) = 0 THEN Head(chain).value
    ELSE ChainSearch(Tail(chain), key)

\* keys are identifier strings and never NULL in this program
ht_search(ht, key) ==
    IF ht = NULL THEN NULL
    ELSE ChainSearch(ht.buckets[shift_hash(key, ht.size)], key)

-----------------------------------------------------------------------------
(* The state of the compile as one record, so that the C routines can be    *)
(* written as operators from state to state.                                *)

S ==
    [token |-> token, position |-> position, pending |-> pending,
     budget |-> budget, alphabet |-> alphabet, ntok |-> ntok,
     origin0 |-> origin0, stack |-> stack, ret |-> ret, heap |-> heap,
     table |-> table, saved_table |-> saved_table,
     curr_offset |-> curr_offset, saved_offset |-> saved_offset,
     return_type |-> return_type, status |-> status, diags |-> diags,
     hist |-> hist]

Apply(s) ==
    /\ token' = s.token
    /\ position' = s.position
    /\ pending' = s.pending
    /\ budget' = s.budget
    /\ alphabet' = s.alphabet
    /\ ntok' = s.ntok
    /\ origin0' = s.origin0
    /\ stack' = s.stack
    /\ ret' = s.ret
    /\ heap' = s.heap
    /\ table' = s.table
    /\ saved_table' = s.saved_table
    /\ curr_offset' = s.curr_offset
    /\ saved_offset' = s.saved_offset
    /\ return_type' = s.return_type
    /\ status' = s.status
    /\ diags' = s.diags
    /\ hist' = s.hist

-----------------------------------------------------------------------------
(* The symbol table (symboltable.c).  A HashTab pointer is an address into  *)
(* the heap of tables; address 0 is the null pointer.                       *)

NullTable == 0

\* the table a HashTab pointer points to
Deref(s, addr) == IF addr = NullTable THEN NULL ELSE s.heap[addr].ht

\* ht_init as called by the symbol table: a fresh table at a new address
NewTable(s) ==
    [s EXCEPT !.heap = Append(@, [live |-> TRUE, ht |-> ht_init])]

init_symbol_table(s) ==
    LET s1 == NewTable(s)
    IN  [s1 EXCEPT !.saved_table = NullTable,
                   !.table = Len(s1.heap),
                   !.curr_offset = 1]

\* an open that records the subroutine in its own new scope
open_subroutine_inner(s, id, prop) ==
    LET s1 == [s EXCEPT !.saved_offset = s.curr_offset]
    IN  IF s1.table = NullTable THEN [ok |-> FALSE, s |-> s1]
        ELSE LET s2 == [s1 EXCEPT !.saved_table = s1.table]
                 r == ht_insert(ht_init, id, prop)
                 s3 == [s2 EXCEPT !.heap = Append(@, [live |-> TRUE,
                                                       ht |-> r.ht])]
             IN  [ok |-> TRUE,
                  s |-> [s3 EXCEPT !.table = Len(s3.heap),
                                   !.curr_offset = 1]]

\* an open that does not record the name of the subroutine
open_subroutine_unnamed(s, id, prop) ==
    LET s1 == [s EXCEPT !.saved_offset = s.curr_offset]
    IN  IF s1.table = NullTable THEN [ok |-> FALSE, s |-> s1]
        ELSE LET s3 == NewTable([s1 EXCEPT !.saved_table = s1.table])
             IN  [ok |-> TRUE,
                  s |-> [s3 EXCEPT !.table = Len(s3.heap),
                                   !.curr_offset = 1]]

\* the result and the state after the call
open_subroutine(s, id, prop) ==
    LET s1 == [s EXCEPT !.saved_offset = s.curr_offset]
    IN  IF s1.table = NullTable THEN [ok |-> FALSE, s |-> s1]
        ELSE LET r == ht_insert(Deref(s1, s1.table), id, prop)
             IN  IF r.rc # EXIT_SUCCESS THEN [ok |-> FALSE, s |-> s1]
                 ELSE LET s2 == [s1 EXCEPT !.heap[s1.table].ht = r.ht,
                                           !.saved_table = s1.table]
                          s3 == NewTable(s2)
                      IN  [ok |-> TRUE,
                           s |-> [s3 EXCEPT !.table = Len(s3.heap),
                                            !.curr_offset = 1]]

\* a block of memory owned by the table at addr for the key id: the key
\* string ("key"), the IDPropt record ("prop") or its params array ("params")
Block(kind, addr, id) == [kind |-> kind, table |-> addr, id |-> id]

\* the blocks freeprop frees for the entry e of the table at addr
freeprop(addr, e) ==
    (IF IS_FUNCTION(e.value.type)
     THEN {Block("params", addr, e.key)} ELSE {})
    \cup {Block("prop", addr, e.key)}

\* the blocks ht_free frees with freekey = free and freeval = freeprop
ht_free(addr, ht) ==
    UNION {UNION {{Block("key", addr, ht.buckets[i][k].key)}
                      \cup freeprop(addr, ht.buckets[i][k]) :
                  k \in 1 .. Len(ht.buckets[i])} :
           i \in DOMAIN ht.buckets}

\* hist.freed: the blocks freed; hist.twice: those freed when already free
release_symbol_table(s) ==
    IF s.table # NullTable
    THEN LET blocks == ht_free(s.table, s.heap[s.table].ht)
         IN  [s EXCEPT !.heap[s.table].live = FALSE, !.table = NullTable,
                       !.hist.freed = @ \cup blocks,
                       !.hist.twice = @ \cup (s.hist.freed \cap blocks)
                                        \cup (IF s.heap[s.table].live
                                              THEN {} ELSE blocks)]
    ELSE s

\* a close that keeps the subroutine's table as the active scope
close_subroutine_keep(s) == [s EXCEPT !.curr_offset = 1]

close_subroutine(s) ==
    LET s1 == IF s.table # NullTable
              THEN [release_symbol_table(s) EXCEPT !.table = s.saved_table]
              ELSE s
    IN  [s1 EXCEPT !.curr_offset = 1]

\* an insertion that leaves curr_offset as it is
insert_name_same_offset(s, id, prop) ==
    IF s.table = NullTable THEN [ok |-> FALSE, s |-> s]
    ELSE LET isvar == ~IS_CALLABLE_TYPE(prop.type)
             stored == IF isvar THEN [prop EXCEPT !.offset = s.curr_offset]
                       ELSE prop
             r == ht_insert(Deref(s, s.table), id, stored)
         IN  IF r.rc # EXIT_SUCCESS THEN [ok |-> FALSE, s |-> s]
             ELSE [ok |-> TRUE, s |-> [s EXCEPT !.heap[s.table].ht = r.ht]]

\* prop->offset is written after the insertion, through the stored pointer
insert_name(s, id, prop) ==
    IF s.table = NullTable THEN [ok |-> FALSE, s |-> s]
    ELSE LET isvar == ~IS_CALLABLE_TYPE(prop.type)
             stored == IF isvar THEN [prop EXCEPT !.offset = s.curr_offset]
                       ELSE prop
             r == ht_insert(Deref(s, s.table), id, stored)
         IN  IF r.rc # EXIT_SUCCESS THEN [ok |-> FALSE, s |-> s]
             ELSE [ok |-> TRUE,
                   s |-> [s EXCEPT !.heap[s.table].ht = r.ht,
                                   !.curr_offset =
                                       IF isvar THEN @ + 1 ELSE @]]

\* a lookup that never consults the suspended scope
find_name_active(s, id) == ht_search(Deref(s, s.table), id)

\* the properties found, or NULL
find_name(s, id) ==
    LET p1 == ht_search(Deref(s, s.table), id)
    IN  IF p1 = NULL /\ s.saved_table # NullTable
        THEN LET p2 == ht_search(Deref(s, s.saved_table), id)
             IN  IF p2 # NULL /\ ~IS_CALLABLE_TYPE(p2.type) THEN NULL ELSE p2
        ELSE p1

get_variables_width(s) == s.curr_offset

idpropt(type, offset, nparams, params) ==
    [type |-> type, offset |-> offset, nparams |-> nparams, params |-> params]

-----------------------------------------------------------------------------
(* Tokens and the scanner.  The scanner is an external collaborator: each   *)
(* get_token overwrites the lookahead and sets position to the place where  *)
(* the new token begins.                                                    *)

T(type) == [type |-> type, lexeme |-> ""]
Id(name) == [type |-> "TOK_ID", lexeme |-> name]
Num == [type |-> "TOK_NUM", lexeme |-> "1"]
EOFTok == T("TOK_EOF")
NoToken == T("none")

STARTS_FACTOR(toktype) ==
    toktype \in {"TOK_ID", "TOK_NUM", "TOK_LPAREN", "TOK_NOT", "TOK_TRUE",
                 "TOK_FALSE"}

STARTS_EXPR(toktype) ==
    toktype \in {"TOK_MINUS", "TOK_ID", "TOK_NUM", "TOK_LPAREN", "TOK_NOT",
                 "TOK_TRUE", "TOK_FALSE"}

IS_ADDOP(toktype) == toktype \in {"TOK_MINUS", "TOK_OR", "TOK_PLUS"}

IS_MULOP(toktype) == toktype \in {"TOK_AND", "TOK_DIV", "TOK_MUL", "TOK_REM"}

IS_ORDOP(toktype) == toktype \in {"TOK_GT", "TOK_GE", "TOK_LT", "TOK_LE"}

IS_RELOP(toktype) ==
    toktype \in {"TOK_EQ", "TOK_GE", "TOK_GT", "TOK_LE", "TOK_LT", "TOK_NE"}

\* the tokens the scanner may deliver next
NextTokens(s) ==
    IF s.pending # <<>> THEN {Head(s.pending)}
    ELSE IF s.budget > 0 THEN s.alphabet \cup {EOFTok}
    ELSE {EOFTok}

\* where the k-th token of the file (counted from 0) begins
TokenPos(s, k) ==
    [line |-> s.origin0.line, col |-> s.origin0.col + Stride * k]

get_token(s, nx) ==
    [s EXCEPT !.token = nx,
              !.position = TokenPos(s, s.ntok),
              !.ntok = @ + 1,
              !.pending = IF @ # <<>> THEN Tail(@) ELSE @,
              !.budget = IF s.pending # <<>> THEN @
                         ELSE IF nx.type = "TOK_EOF" THEN 0
                         ELSE @ - 1,
              !.hist.toks = Append(@, nx)]

\* token.c: the printable name of a token kind
get_token_string(toktype) ==
    CASE toktype = "TOK_EOF" -> "end-of-file"
      [] toktype = "TOK_ID" -> "identifier"
      [] toktype = "TOK_NUM" -> "number"
      [] toktype = "TOK_STR" -> "string"
      [] toktype = "TOK_ARRAY" -> "'array'"
      [] toktype = "TOK_BOOL" -> "'bool'"
      [] toktype = "TOK_CHILLAX" -> "'chillax'"
      [] toktype = "TOK_ELIF" -> "'elif'"
      [] toktype = "TOK_ELSE" -> "'else'"
      [] toktype = "TOK_END" -> "'end'"
      [] toktype = "TOK_FALSE" -> "'false'"
      [] toktype = "TOK_IF" -> "'if'"
      [] toktype = "TOK_INPUT" -> "'input'"
      [] toktype = "TOK_INT" -> "'int'"
      [] toktype = "TOK_LET" -> "'let'"
      [] toktype = "TOK_MAIN" -> "'main'"
      [] toktype = "TOK_NOT" -> "'not'"
      [] toktype = "TOK_OUTPUT" -> "'output'"
      [] toktype = "TOK_PROGRAM" -> "'program'"
      [] toktype = "TOK_RETURN" -> "'return'"
      [] toktype = "TOK_TRUE" -> "'true'"
      [] toktype = "TOK_WHILE" -> "'while'"
      [] toktype = "TOK_EQ" -> "'='"
      [] toktype = "TOK_GE" -> "'>='"
      [] toktype = "TOK_GT" -> "'>'"
      [] toktype = "TOK_LE" -> "'<='"
      [] toktype = "TOK_LT" -> "'<'"
      [] toktype = "TOK_NE" -> "'/='"
      [] toktype = "TOK_MINUS" -> "'-'"
      [] toktype = "TOK_OR" -> "'or'"
      [] toktype = "TOK_PLUS" -> "'+'"
      [] toktype = "TOK_AND" -> "'and'"
      [] toktype = "TOK_DIV" -> "'/'"
      [] toktype = "TOK_MUL" -> "'*'"
      [] toktype = "TOK_REM" -> "'rem'"
      [] toktype = "TOK_ARROW" -> "'->'"
      [] toktype = "TOK_COLON" -> "':'"
      [] toktype = "TOK_COMMA" -> "','"
      [] toktype = "TOK_DOTDOT" -> "'..'"
      [] toktype = "TOK_LBRACK" -> "'['"
      [] toktype = "TOK_LPAREN" -> "'('"
      [] toktype = "TOK_RBRACK" -> "']'"
      [] toktype = "TOK_RPAREN" -> "')'"
      [] toktype = "TOK_SEMICOLON" -> "';'"
      [] OTHER -> "?"

-----------------------------------------------------------------------------
(* The diagnostics sink and the error routines (amplc.c, error.h).          *)

Running(s) == s.status = "running"

NoArg == "<none>"

Diag(err) ==
    [err |-> err, pos |-> [line |-> 0, col |-> 0], arg |-> NoArg,
     exptok |-> NoArg, fndtok |-> NoArg, expty |-> 0, fndty |-> 0,
     ctx |-> <<>>]

\* leprintf prints one message at the current position and exits
leprintf(s, d) ==
    [s EXCEPT !.diags = Append(@, [d EXCEPT !.pos = s.position]),
              !.status = "rejected",
              !.stack = <<>>]

\* errors whose message prints the string argument s
PrintsArg ==
    {"ERR_UNREACHABLE", "ERR_MULTIPLE_DEFINITION", "ERR_UNKNOWN_IDENTIFIER",
     "ERR_NOT_A_VARIABLE", "ERR_NOT_AN_ARRAY", "ERR_NOT_A_FUNCTION",
     "ERR_ILLEGAL_ARRAY_OPERATION", "ERR_TOO_FEW_ARGUMENTS",
     "ERR_TOO_MANY_ARGUMENTS", "ERR_NOT_A_PROCEDURE", "ERR_EXPECTED_SCALAR"}

\* errors printed with the template "expected %s, but found <token>"
ExpectedWhat(err) ==
    CASE err = "ERR_EXPECTED_FACTOR" -> "factor"
      [] err = "ERR_EXPECTED_TYPE_SPECIFIER" -> "type specifier"
      [] err = "ERR_EXPECTED_STATEMENT" -> "statement"
      [] err = "ERR_EXPECTED_EXPRESSION_OR_ARRAY_ALLOCATION" ->
             "expression or array allocation"
      [] err = "ERR_EXPECTED_EXPRESSION_OR_STRING" -> "expression or string"
      [] OTHER -> NoArg

\* what a read of a missing variadic argument as a string can produce: a
\* fault, or a string, which may be any identifier of the source, the one
\* the diagnostic is about included
Crash == "<crash>"
Garbage == "<garbage>"
UBStrings == Names \cup MoreNames \cup {"p"} \cup {Garbage, Crash}

\* arg is the variadic argument; NoArg when the caller passed none, and then
\* a message that prints it prints what the build happens to read (ub)
_abort_cp(s, posp, err, arg, ub) ==
    LET s1 == IF posp # NULL THEN [s EXCEPT !.position = posp] ELSE s
        d0 == Diag(err)
    IN  IF err = "ERR_EXPECT"
        THEN leprintf(s1, [d0 EXCEPT
                               !.exptok = get_token_string(arg),
                               !.fndtok = get_token_string(s1.token.type)])
        ELSE IF ExpectedWhat(err) # NoArg
        THEN leprintf(s1, [d0 EXCEPT
                               !.exptok = ExpectedWhat(err),
                               !.fndtok = get_token_string(s1.token.type)])
        ELSE IF err \in PrintsArg
        THEN IF arg # NoArg THEN leprintf(s1, [d0 EXCEPT !.arg = arg])
             ELSE IF ub = Crash
             THEN [s1 EXCEPT !.status = "crashed", !.stack = <<>>]
             ELSE leprintf(s1, [d0 EXCEPT !.arg = ub])
        ELSE leprintf(s1, d0)

abort_c(s, err, arg, ub) == _abort_cp(s, NULL, err, arg, ub)

abort_cp(s, posp, err, arg, ub) == _abort_cp(s, posp, err, arg, ub)

\* abort_c after `position = pos`
abort_at(s, pos, err, arg, ub) ==
    abort_c([s EXCEPT !.position = pos], err, arg, ub)

chktypes(s, found, expected, pos, ctx) ==
    IF found # expected
    THEN leprintf([s EXCEPT !.position = pos],
                  [Diag("ERR_TYPE_MISMATCH") EXCEPT !.expty = expected,
                                                    !.fndty = found,
                                                    !.ctx = ctx])
    ELSE s

expect(s, in, type) ==
    IF s.token.type = type THEN get_token(s, in.nx)
    ELSE abort_c(s, "ERR_EXPECT", type, in.ub)

\* the state after the call; the identifier read is the lexeme of the
\* lookahead before the call
expect_id(s, in) ==
    IF s.token.type = "TOK_ID" THEN get_token(s, in.nx)
    ELSE abort_c(s, "ERR_EXPECT", "TOK_ID", in.ub)

-----------------------------------------------------------------------------
(* The call stack.  A frame holds the routine, the place it resumes at and  *)
(* its local variables.                                                     *)

NoPos == [line |-> 0, col |-> 0]

Frame(fn) ==
    [fn |-> fn, pc |-> 0, id |-> "", subid |-> "", pos |-> NoPos,
     idpos |-> NoPos, pos2 |-> NoPos, t0 |-> 0, t1 |-> 0, toktype |-> "",
     i |-> 0, indexed |-> FALSE, proptype |-> 0, original_proptype |-> 0,
     head |-> <<>>, prop |-> NULL]

Top(s) == s.stack[Len(s.stack)]

SetTop(s, f) == [s EXCEPT !.stack[Len(s.stack)] = f]

\* call routine fn with frame f; the caller resumes at pc
Call(s, pc, f) ==
    [s EXCEPT !.stack = Append([@ EXCEPT ![Len(@)].pc = pc], f)]

Return(s) == [s EXCEPT !.stack = SubSeq(@, 1, Len(@) - 1)]

-----------------------------------------------------------------------------
(* History of the compile: the subroutine names opened so far, the          *)
(* variables defined in the current subroutine or main in definition order, *)
(* the variable names of the subroutines already closed, the unit being     *)
(* parsed, the tokens the scanner has delivered (get_token appends to       *)
(* them), and the memory blocks handed to the tables and freed with them.   *)
(* The parser never reads it.                                               *)

\* hist.owned: the blocks handed to a table with an inserted name
HistOpen(s, subid) ==
    [s EXCEPT !.hist.subs = Append(@, subid), !.hist.locals = <<>>,
              !.hist.unit = "sub",
              !.hist.owned = @ \cup {Block(k, s.saved_table, subid) :
                                         k \in {"key", "prop", "params"}}]

HistDef(s, id) ==
    [s EXCEPT !.hist.locals = Append(@, id),
              !.hist.owned = @ \cup {Block(k, s.table, id) :
                                         k \in {"key", "prop"}}]

HistClose(s) ==
    [s EXCEPT !.hist.closed = @ \cup {s.hist.locals[k] :
                                          k \in 1 .. Len(s.hist.locals)},
              !.hist.locals = <<>>, !.hist.unit = "pre"]

HistMain(s) == [s EXCEPT !.hist.unit = "main"]

-----------------------------------------------------------------------------
(* The parser (amplc.c).  Each routine is an operator from the state and    *)
(* the step's inputs (in.nx: the token the scanner delivers if the step     *)
(* asks for one; in.ub: what a read of a missing argument produces) to the  *)
(* next state.  A step ends where the routine calls another parse routine   *)
(* or after it has consumed a token.                                        *)

\* main, from init_symbol_table to the exit
main(s, in) ==
    LET f == Top(s)
    IN  IF f.pc = 0
        THEN Call(get_token(init_symbol_table(s), in.nx), 1,
                  Frame("parse_program"))
        ELSE [release_symbol_table(s) EXCEPT !.status = "accepted",
                                             !.stack = <<>>]

\* the position of the first column as the scanner counts columns
Origin_first_column == [line |-> 1, col |-> 1]

Origin == [line |-> 1, col |-> 0]

\* ProgramEnd with the end of input asked for by expect
ProgramEnd_expect(s, in) ==
    IF s.token.type # "TOK_EOF"
    THEN abort_c(s, "ERR_EXPECT", "TOK_EOF", in.ub)
    ELSE Return(s)

\* the end of parse_program, after the body of main
ProgramEnd(s, in) ==
    IF s.token.type # "TOK_EOF"
    THEN abort_c(s, "ERR_UNREACHABLE", get_token_string(s.token.type), in.ub)
    ELSE Return(s)

parse_program(s, in) ==
    LET f == Top(s)
        tt == s.token.type
    IN  CASE f.pc = 0 ->
               IF tt = "TOK_EOF"
               THEN abort_cp(s, Origin, "ERR_EXPECT", "TOK_PROGRAM", in.ub)
               ELSE LET s1 == expect(s, in, "TOK_PROGRAM")
                    IN  IF Running(s1) THEN SetTop(s1, [f EXCEPT !.pc = 1])
                        ELSE s1
          [] f.pc = 1 ->
               LET s1 == expect_id(s, in)
               IN  IF Running(s1)
                   THEN SetTop(s1, [f EXCEPT !.pc = 2, !.id = s.token.lexeme])
                   ELSE s1
          [] f.pc = 2 ->
               LET s1 == expect(s, in, "TOK_COLON")
               IN  IF Running(s1) THEN SetTop(s1, [f EXCEPT !.pc = 3]) ELSE s1
          [] f.pc = 3 ->
               IF tt = "TOK_ID" THEN Call(s, 3, Frame("parse_subdef"))
               ELSE LET s1 == expect(s, in, "TOK_MAIN")
                    IN  IF Running(s1) THEN SetTop(s1, [f EXCEPT !.pc = 4])
                        ELSE s1
          [] f.pc = 4 ->
               LET s1 == expect(s, in, "TOK_COLON")
               IN  IF Running(s1)
                   THEN Call(HistMain(s1), 5, Frame("parse_body"))
                   ELSE s1
          [] OTHER -> ProgramEnd(s, in)

variable(id, type, pos) == [id |-> id, type |-> type, pos |-> pos]

\* the loop of parse_subdef that defines the parameters in the new scope
RECURSIVE InsertParams(_, _, _)
InsertParams(s, head, ub) ==
    IF head = <<>> THEN s
    ELSE LET temp == Head(head)
         IN  IF find_name(s, temp.id) # NULL
             THEN abort_at(s, temp.pos, "ERR_MULTIPLE_DEFINITION", temp.id, ub)
             ELSE LET width == get_variables_width(s)
                      prop == idpropt(temp.type, width, 0, <<>>)
                      r == insert_name(s, temp.id, prop)
                  IN  IF ~r.ok
                      THEN abort_at(r.s, temp.pos, "ERR_MULTIPLE_DEFINITION",
                                    temp.id, ub)
                      ELSE InsertParams(HistDef(r.s, temp.id), Tail(head), ub)

\* the routine goes on in state s1 with its frame set to top, unless s1 is
\* the state after an abort
Then(s1, top) == IF Running(s1) THEN SetTop(s1, top) ELSE s1

\* the same, with a call of the routine of frame
ThenCall(s1, top, pc, frame) ==
    IF Running(s1) THEN Call(SetTop(s1, top), pc, frame) ELSE s1

\* parse_subdef from expect(TOK_COLON) to the call of parse_body; s2 is the
\* state after the loop over the parameters
SubdefBody(s2, in, f, t1) ==
    IF Running(s2)
    THEN ThenCall(expect(s2, in, "TOK_COLON"),
                  [f EXCEPT !.head = <<>>, !.t1 = t1], 6, Frame("parse_body"))
    ELSE s2

\* parse_subdef after open_subroutine has returned r
SubdefScope(r, in, f, t1) ==
    IF r.ok
    THEN SubdefBody(InsertParams(HistOpen(r.s, f.subid), f.head, in.ub),
                    in, f, t1)
    ELSE abort_at(r.s, f.pos2, "ERR_MULTIPLE_DEFINITION", f.subid, in.ub)

\* parse_subdef from `return_type = t1` to the call of parse_body
SubdefOpen(s, in, f, t1) ==
    LET s1 == [s EXCEPT !.return_type = t1]
        width == get_variables_width(s1)
        params == [k \in 1 .. Len(f.head) |-> f.head[k].type]
        prop == idpropt(t1, width, Len(f.head), params)
    IN  SubdefScope(open_subroutine(s1, f.subid, prop), in, f, t1)

\* pos2 holds subpos
parse_subdef(s, in) ==
    LET f == Top(s)
        tt == s.token.type
    IN  CASE f.pc = 0 ->
               LET s0 == [s EXCEPT !.return_type = TYPE_NONE]
                   s1 == expect_id(s0, in)
               IN  IF Running(s1)
                   THEN SetTop(s1, [f EXCEPT !.pc = 1, !.pos2 = s.position,
                                             !.subid = s.token.lexeme])
                   ELSE s1
          [] f.pc = 1 ->
               LET s1 == expect(s, in, "TOK_LPAREN")
               IN  IF Running(s1)
                   THEN Call([s1 EXCEPT !.ret = 0], 2, Frame("parse_type"))
                   ELSE s1
          [] f.pc = 2 ->
               LET t1 == s.ret
                   pos == s.position
                   s1 == expect_id(s, in)
               IN  IF Running(s1)
                   THEN SetTop(s1, [f EXCEPT
                            !.pc = 3,
                            !.head = Append(@, variable(s.token.lexeme,
                                                        t1, pos))])
                   ELSE s1
          [] f.pc = 3 ->
               IF tt = "TOK_COMMA"
               THEN Call([get_token(s, in.nx) EXCEPT !.ret = 0], 2,
                         Frame("parse_type"))
               ELSE LET s1 == expect(s, in, "TOK_RPAREN")
                    IN  IF Running(s1) THEN SetTop(s1, [f EXCEPT !.pc = 4])
                        ELSE s1
          [] f.pc = 4 ->
               IF tt = "TOK_ARROW"
               THEN Call([get_token(s, in.nx) EXCEPT !.ret = TYPE_CALLABLE],
                         5, Frame("parse_type"))
               ELSE SubdefOpen(s, in, f, TYPE_CALLABLE)
          [] f.pc = 5 -> SubdefOpen(s, in, f, s.ret)
          [] OTHER ->
               Return(HistClose([close_subroutine(s) EXCEPT
                                     !.return_type = TYPE_NONE]))

parse_body(s, in) ==
    LET f == Top(s)
        tt == s.token.type
    IN  IF f.pc = 0
        THEN IF tt = "TOK_BOOL" \/ tt = "TOK_INT"
             THEN Call(s, 0, Frame("parse_vardef"))
             ELSE Call(s, 1, Frame("parse_statements"))
        ELSE Return(s)

\* a parse_type that takes a missing type for no type
parse_type_optional(s, in) ==
    LET f == Top(s)
        tt == s.token.type
    IN  IF f.pc = 0
        THEN IF tt = "TOK_BOOL" \/ tt = "TOK_INT"
             THEN LET b == IF tt = "TOK_BOOL" THEN TYPE_BOOLEAN
                           ELSE TYPE_INTEGER
                      s1 == get_token([s EXCEPT !.ret = BitOr(@, b)], in.nx)
                  IN  SetTop(s1, [f EXCEPT !.pc = 1])
             ELSE Return(s)
        ELSE IF tt = "TOK_ARRAY"
             THEN Return([get_token(s, in.nx) EXCEPT
                              !.ret = BitOr(@, TYPE_ARRAY)])
             ELSE Return(s)

\* *t0 is s.ret
parse_type(s, in) ==
    LET f == Top(s)
        tt == s.token.type
    IN  IF f.pc = 0
        THEN IF tt = "TOK_BOOL" \/ tt = "TOK_INT"
             THEN LET b == IF tt = "TOK_BOOL" THEN TYPE_BOOLEAN
                           ELSE TYPE_INTEGER
                      s1 == get_token([s EXCEPT !.ret = BitOr(@, b)], in.nx)
                  IN  SetTop(s1, [f EXCEPT !.pc = 1])
             ELSE abort_c(s, "ERR_EXPECTED_TYPE_SPECIFIER", NoArg, in.ub)
        ELSE IF tt = "TOK_ARRAY"
             THEN Return([get_token(s, in.nx) EXCEPT
                              !.ret = BitOr(@, TYPE_ARRAY)])
             ELSE Return(s)

\* one `id` of a vardef whose errors are reported where the scanner stands
VardefId_here(s, in, t1) ==
    LET id == s.token.lexeme
        s1 == expect_id(s, in)
    IN  IF ~Running(s1) THEN s1
        ELSE IF find_name(s1, id) # NULL
        THEN abort_c(s1, "ERR_MULTIPLE_DEFINITION", id, in.ub)
        ELSE LET width == get_variables_width(s1)
                 prop == idpropt(t1, width, 0, <<>>)
                 r == insert_name(s1, id, prop)
             IN  IF ~r.ok
                 THEN abort_c(r.s, "ERR_MULTIPLE_DEFINITION", id, in.ub)
                 ELSE HistDef(r.s, id)

\* one `id` of a vardef: the lookup, the insertion and their errors
VardefId(s, in, t1) ==
    LET pos == s.position
        id == s.token.lexeme
        s1 == expect_id(s, in)
    IN  IF ~Running(s1) THEN s1
        ELSE IF find_name(s1, id) # NULL
        THEN abort_at(s1, pos, "ERR_MULTIPLE_DEFINITION", id, in.ub)
        ELSE LET width == get_variables_width(s1)
                 prop == idpropt(t1, width, 0, <<>>)
                 r == insert_name(s1, id, prop)
             IN  IF ~r.ok
                 THEN abort_at(r.s, pos, "ERR_MULTIPLE_DEFINITION", id, in.ub)
                 ELSE HistDef(r.s, id)

parse_vardef(s, in) ==
    LET f == Top(s)
        tt == s.token.type
    IN  CASE f.pc = 0 -> Call([s EXCEPT !.ret = 0], 1, Frame("parse_type"))
          [] f.pc = 1 ->
               Then(VardefId(s, in, s.ret), [f EXCEPT !.pc = 2, !.t1 = s.ret])
          [] f.pc = 2 ->
               IF tt = "TOK_COMMA"
               THEN SetTop(get_token(s, in.nx), [f EXCEPT !.pc = 3])
               ELSE LET s1 == expect(s, in, "TOK_SEMICOLON")
                    IN  IF Running(s1) THEN Return(s1) ELSE s1
          [] OTHER -> Then(VardefId(s, in, f.t1), [f EXCEPT !.pc = 2])

parse_statements(s, in) ==
    LET f == Top(s)
        tt == s.token.type
    IN  IF f.pc = 0
        THEN IF tt = "TOK_CHILLAX" THEN Return(get_token(s, in.nx))
             ELSE Call(s, 1, Frame("parse_statement"))
        ELSE IF tt = "TOK_SEMICOLON"
             THEN Call(get_token(s, in.nx), 1, Frame("parse_statement"))
             ELSE Return(s)

parse_statement(s, in) ==
    LET f == Top(s)
        tt == s.token.type
    IN  IF f.pc = 0
        THEN CASE tt = "TOK_LET" -> Call(s, 1, Frame("parse_assign"))
               [] tt = "TOK_ID" -> Call(s, 1, Frame("parse_call"))
               [] tt = "TOK_IF" -> Call(s, 1, Frame("parse_if"))
               [] tt = "TOK_INPUT" -> Call(s, 1, Frame("parse_input"))
               [] tt = "TOK_OUTPUT" -> Call(s, 1, Frame("parse_output"))
               [] tt = "TOK_RETURN" -> Call(s, 1, Frame("parse_return"))
               [] tt = "TOK_WHILE" -> Call(s, 1, Frame("parse_while"))
               [] OTHER -> abort_c(s, "ERR_EXPECTED_STATEMENT", NoArg, in.ub)
        ELSE Return(s)

\* the argument check of parse_arglist: argument i (from 0) of type t1
ArgCheck(s, f, t1) ==
    LET param == f.prop.params[f.i + 1]
        ctx == <<"for argument %d of call to '%s'", f.i + 1, f.id>>
    IN  IF ~IS_ARRAY_TYPE(t1) /\ ~IS_ARRAY_TYPE(param)
        THEN IF ~(\/ IS_INTEGER_TYPE(t1) /\ IS_INTEGER_TYPE(param)
                  \/ IS_BOOLEAN_TYPE(t1) /\ IS_BOOLEAN_TYPE(param)
                  \/ IS_CALLABLE_TYPE(t1) /\ IS_CALLABLE_TYPE(param))
             THEN chktypes(s, t1, param, f.pos, ctx)
             ELSE s
        ELSE chktypes(s, t1, param, f.pos, ctx)

\* frame: id, idpos, prop (set at pc 0), i, pos
parse_arglist(s, in) ==
    LET f == Top(s)
        tt == s.token.type
    IN  CASE f.pc = 0 ->
               LET prop == find_name(s, f.id)
               IN  IF prop = NULL
                   THEN abort_at(s, f.idpos, "ERR_UNKNOWN_IDENTIFIER", f.id,
                                 in.ub)
                   ELSE LET s1 == expect(s, in, "TOK_LPAREN")
                        IN  IF Running(s1)
                            THEN SetTop(s1, [f EXCEPT !.pc = 1, !.i = 0,
                                                      !.prop = prop])
                            ELSE s1
          [] f.pc = 1 ->
               IF STARTS_EXPR(tt)
               THEN Call(SetTop(s, [f EXCEPT !.pos = s.position]), 2,
                         Frame("parse_expr"))
               ELSE LET s1 == expect(s, in, "TOK_RPAREN")
                    IN  IF Running(s1) THEN Return(s1) ELSE s1
          [] OTHER ->
               LET s1 == ArgCheck(s, f, s.ret)
                   i == f.i + 1
               IN  IF ~Running(s1) THEN s1
                   ELSE IF tt = "TOK_COMMA"
                   THEN IF i >= f.prop.nparams
                        THEN abort_c(s1, "ERR_TOO_MANY_ARGUMENTS", f.id, in.ub)
                        ELSE LET s2 == get_token(s1, in.nx)
                             IN  Call(SetTop(s2, [f EXCEPT
                                                      !.i = i,
                                                      !.pos = s2.position]),
                                      2, Frame("parse_expr"))
                   ELSE IF i < f.prop.nparams
                   THEN abort_c(s1, "ERR_TOO_FEW_ARGUMENTS", f.id, in.ub)
                   ELSE LET s2 == expect(s1, in, "TOK_RPAREN")
                        IN  IF Running(s2) THEN Return(s2) ELSE s2

parse_call(s, in) ==
    LET f == Top(s)
    IN  IF f.pc = 0
        THEN LET idpos == s.position
                 id == s.token.lexeme
                 s1 == expect_id(s, in)
                 prop == find_name(s1, id)
             IN  IF ~Running(s1) THEN s1
                 ELSE IF prop = NULL
                 THEN abort_at(s1, idpos, "ERR_UNKNOWN_IDENTIFIER", id, in.ub)
                 ELSE IF IS_FUNCTION(prop.type)
                 THEN abort_at(s1, idpos, "ERR_NOT_A_PROCEDURE", NoArg, in.ub)
                 ELSE IF ~IS_CALLABLE_TYPE(prop.type)
                 THEN IF IS_FUNCTION(prop.type)
                      THEN abort_at(s1, idpos, "ERR_NOT_A_FUNCTION", id, in.ub)
                      ELSE abort_at(s1, idpos, "ERR_NOT_A_PROCEDURE", id,
                                    in.ub)
                 ELSE Call(s1, 1, [Frame("parse_arglist") EXCEPT
                                       !.id = id, !.idpos = idpos])
        ELSE Return(s)

parse_return(s, in) ==
    LET f == Top(s)
    IN  IF f.pc = 0
        THEN LET pos == s.position
                 s1 == expect(s, in, "TOK_RETURN")
             IN  IF ~Running(s1) THEN s1
                 ELSE IF IS_PROCEDURE(s1.return_type)
                 THEN abort_c(s1, "ERR_RETURN_EXPRESSION_NOT_ALLOWED", NoArg,
                              in.ub)
                 ELSE IF STARTS_EXPR(s1.token.type)
                 THEN IF IS_PROCEDURE(s1.return_type)
                      THEN abort_c(s1, "ERR_RETURN_EXPRESSION_NOT_ALLOWED",
                                   NoArg, in.ub)
                      ELSE IF IS_FUNCTION(s1.return_type)
                      THEN Call(SetTop(s1, [f EXCEPT !.pos = s1.position]),
                                1, Frame("parse_expr"))
                      ELSE Return(s1)
                 ELSE IF IS_FUNCTION(s1.return_type)
                 THEN abort_at(s1, pos, "ERR_MISSING_RETURN_EXPRESSION",
                               NoArg, in.ub)
                 ELSE IF IS_PROCEDURE(s1.return_type)
                 THEN abort_c(s1, "ERR_RETURN_EXPRESSION_NOT_ALLOWED", NoArg,
                              in.ub)
                 ELSE Return(s1)
        ELSE LET t2 == SET_RETURN_TYPE(s.return_type)
                 t1 == SET_RETURN_TYPE(s.ret)
                 s1 == chktypes(s, t1, t2, f.pos, <<"for 'return' statement">>)
             IN  IF Running(s1) THEN Return(s1) ELSE s1

\* the operator context of a type error
OpCtx(toktype) == <<"for operator %s", get_token_string(toktype)>>

\* chktypes2 without the check of the second operand
chktypes2_first(s, f1, e1, f2, e2, pos, ctx) ==
    chktypes(s, f1, e1, pos, ctx)

\* two chktypes calls in a row: the second runs only if the first returned
chktypes2(s, f1, e1, f2, e2, pos, ctx) ==
    LET s1 == chktypes(s, f1, e1, pos, ctx)
    IN  IF Running(s1) THEN chktypes(s1, f2, e2, pos, ctx) ELSE s1

\* frame: t1, toktype, pos; the result *t0 is s.ret on return
parse_expr(s, in) ==
    LET f == Top(s)
        tt == s.token.type
    IN  CASE f.pc = 0 -> Call(s, 1, Frame("parse_simple"))
          [] f.pc = 1 ->
               LET t1 == s.ret
               IN  IF IS_RELOP(tt)
                   THEN IF IS_ARRAY(t1)
                        THEN abort_c(s, "ERR_ILLEGAL_ARRAY_OPERATION",
                                     get_token_string(tt), in.ub)
                        ELSE Call(SetTop(get_token(s, in.nx),
                                         [f EXCEPT !.t1 = t1, !.toktype = tt,
                                                   !.pos = s.position]),
                                  2, Frame("parse_simple"))
                   ELSE Return([s EXCEPT !.ret = t1])
          [] OTHER ->
               LET t2 == s.ret
                   s1 == IF IS_ARRAY(t2)
                         THEN abort_at(s, f.pos, "ERR_ILLEGAL_ARRAY_OPERATION",
                                       get_token_string(f.toktype), in.ub)
                         ELSE IF f.toktype = "TOK_EQ" \/ f.toktype = "TOK_NE"
                         THEN chktypes(s, f.t1, t2, f.pos, OpCtx(f.toktype))
                         ELSE chktypes2(s, f.t1, TYPE_INTEGER,
                                        t2, TYPE_INTEGER, f.pos,
                                        OpCtx(f.toktype))
               IN  IF Running(s1) THEN Return([s1 EXCEPT !.ret = TYPE_BOOLEAN])
                   ELSE s1

\* the head of the addop loop of parse_simple; f.t0 is *t0
SimpleLoop(s, in, f) ==
    LET tt == s.token.type
    IN  IF IS_ADDOP(tt)
        THEN Call(SetTop(get_token(s, in.nx),
                         [f EXCEPT !.toktype = tt, !.pos = s.position]),
                  3, Frame("parse_term"))
        ELSE Return([s EXCEPT !.ret = f.t0])

parse_simple(s, in) ==
    LET f == Top(s)
        tt == s.token.type
    IN  CASE f.pc = 0 ->
               IF tt = "TOK_MINUS"
               THEN Call(SetTop(get_token(s, in.nx),
                                [f EXCEPT !.pos = s.position,
                                          !.pos2 = s.position]),
                         1, Frame("parse_term"))
               ELSE Call(s, 2, Frame("parse_term"))
          [] f.pc = 1 ->
               LET t0 == s.ret
                   pos2 == [f.pos2 EXCEPT !.col = @ + 1]
                   s1 == IF IS_ARRAY(t0)
                         THEN abort_at(s, f.pos, "ERR_ILLEGAL_ARRAY_OPERATION",
                                       "unary minus", in.ub)
                         ELSE chktypes(s, t0, TYPE_INTEGER, pos2,
                                       <<"for unary minus">>)
               IN  IF Running(s1) THEN Return([s1 EXCEPT !.ret = t0]) ELSE s1
          [] f.pc = 2 ->
               LET t0 == s.ret
               IN  IF IS_ADDOP(tt) /\ IS_ARRAY(t0)
                   THEN abort_c(s, "ERR_ILLEGAL_ARRAY_OPERATION",
                                get_token_string(tt), in.ub)
                   ELSE SimpleLoop(s, in, [f EXCEPT !.t0 = t0])
          [] OTHER ->
               LET t1 == s.ret
                   s1 == IF IS_ARRAY(t1)
                         THEN abort_at(s, f.pos, "ERR_ILLEGAL_ARRAY_OPERATION",
                                       get_token_string(f.toktype), in.ub)
                         ELSE IF f.toktype = "TOK_OR"
                         THEN chktypes2(s, f.t0, TYPE_BOOLEAN,
                                        t1, TYPE_BOOLEAN, f.pos,
                                        OpCtx(f.toktype))
                         ELSE LET s2 == IF ~IS_INTEGER_TYPE(f.t0)
                                        THEN chktypes(s, f.t0, TYPE_INTEGER,
                                                      f.pos, OpCtx(f.toktype))
                                        ELSE s
                              IN  IF Running(s2) /\ ~IS_INTEGER_TYPE(t1)
                                  THEN chktypes(s2, t1, TYPE_INTEGER, f.pos,
                                                OpCtx(f.toktype))
                                  ELSE s2
               IN  IF Running(s1) THEN SimpleLoop(s1, in, f) ELSE s1

\* the head of the mulop loop of parse_term; f.t0 is *t0
TermLoop(s, in, f) ==
    LET tt == s.token.type
    IN  IF IS_MULOP(tt)
        THEN Call(SetTop(get_token(s, in.nx),
                         [f EXCEPT !.toktype = tt, !.pos = s.position]),
                  2, Frame("parse_factor"))
        ELSE Return([s EXCEPT !.ret = f.t0])

parse_term(s, in) ==
    LET f == Top(s)
        tt == s.token.type
    IN  CASE f.pc = 0 -> Call(s, 1, Frame("parse_factor"))
          [] f.pc = 1 ->
               LET t0 == s.ret
               IN  IF IS_MULOP(tt) /\ IS_ARRAY(t0)
                   THEN abort_c(s, "ERR_ILLEGAL_ARRAY_OPERATION",
                                get_token_string(tt), in.ub)
                   ELSE TermLoop(s, in, [f EXCEPT !.t0 = t0])
          [] OTHER ->
               LET t1 == s.ret
                   s1 == IF IS_ARRAY(t1)
                         THEN abort_at(s, f.pos, "ERR_ILLEGAL_ARRAY_OPERATION",
                                       get_token_string(f.toktype), in.ub)
                         ELSE IF f.toktype = "TOK_AND"
                         THEN chktypes2(s, f.t0, TYPE_BOOLEAN,
                                        t1, TYPE_BOOLEAN, f.pos,
                                        OpCtx(f.toktype))
                         ELSE chktypes2(s, f.t0, TYPE_INTEGER,
                                        t1, TYPE_INTEGER, f.pos,
                                        OpCtx(f.toktype))
               IN  IF Running(s1) THEN TermLoop(s1, in, f) ELSE s1

\* frame: t0, pos, pos2 (pos_not)
parse_factor(s, in) ==
    LET f == Top(s)
        tt == s.token.type
    IN  CASE f.pc = 0 /\ tt = "TOK_ID" ->
               LET pos == s.position
                   id == s.token.lexeme
                   s1 == expect_id(s, in)
                   prop == find_name(s1, id)
                   t1 == s1.token.type
               IN  IF prop = NULL
                   THEN abort_at(s1, pos, "ERR_UNKNOWN_IDENTIFIER", id, in.ub)
                   ELSE IF t1 = "TOK_LBRACK"
                   THEN IF ~IS_ARRAY_TYPE(prop.type)
                        THEN abort_at(s1, pos, "ERR_NOT_AN_ARRAY", id, in.ub)
                        ELSE Call(SetTop(s1, [f EXCEPT
                                                 !.t0 = BitAnd(prop.type, 6)]),
                                  1, [Frame("parse_index") EXCEPT !.id = id])
                   ELSE IF t1 = "TOK_LPAREN"
                   THEN IF ~IS_FUNCTION(prop.type)
                        THEN abort_at(s1, pos, "ERR_NOT_A_FUNCTION", id, in.ub)
                        ELSE Call(SetTop(s1, [f EXCEPT !.t0 =
                                      BitXor(BitAnd(prop.type, 6),
                                             TYPE_CALLABLE)]),
                                  1, [Frame("parse_arglist") EXCEPT
                                          !.id = id, !.idpos = pos])
                   ELSE Return([s1 EXCEPT !.ret = prop.type])
          [] f.pc = 0 /\ tt = "TOK_NUM" ->
               Return([get_token(s, in.nx) EXCEPT !.ret = TYPE_INTEGER])
          [] f.pc = 0 /\ tt = "TOK_LPAREN" ->
               Call(expect(s, in, "TOK_LPAREN"), 2, Frame("parse_expr"))
          [] f.pc = 0 /\ tt = "TOK_NOT" ->
               LET s1 == expect(s, in, "TOK_NOT")
               IN  Call(SetTop(s1, [f EXCEPT !.pos2 = s.position,
                                             !.pos = s1.position]),
                        3, Frame("parse_factor"))
          [] f.pc = 0 /\ tt \in {"TOK_TRUE", "TOK_FALSE"} ->
               Return([expect(s, in, tt) EXCEPT !.ret = TYPE_BOOLEAN])
          [] f.pc = 0 -> abort_c(s, "ERR_EXPECTED_FACTOR", NoArg, in.ub)
          [] f.pc = 1 -> Return([s EXCEPT !.ret = f.t0])
          [] f.pc = 2 ->
               LET s1 == expect(s, in, "TOK_RPAREN")
               IN  IF Running(s1) THEN Return(s1) ELSE s1
          [] OTHER ->
               LET t0 == s.ret
                   s1 == IF IS_ARRAY_TYPE(t0)
                         THEN abort_at(s, f.pos2, "ERR_ILLEGAL_ARRAY_OPERATION",
                                       "'not'", in.ub)
                         ELSE chktypes(s, t0, TYPE_BOOLEAN, f.pos,
                                       <<"for 'not'">>)
               IN  IF Running(s1) THEN Return(s1) ELSE s1

\* frame: id, pos
parse_index(s, in) ==
    LET f == Top(s)
    IN  IF f.pc = 0
        THEN LET s1 == expect(s, in, "TOK_LBRACK")
             IN  IF Running(s1)
                 THEN Call(SetTop(s1, [f EXCEPT !.pos = s1.position]), 1,
                           Frame("parse_simple"))
                 ELSE s1
        ELSE LET s1 == chktypes(s, s.ret, TYPE_INTEGER, f.pos,
                                <<"for array index of '%s'", f.id>>)
                 s2 == IF Running(s1) THEN expect(s1, in, "TOK_RBRACK")
                       ELSE s1
             IN  IF Running(s2) THEN Return(s2) ELSE s2

\* AssignCheck without the comparison of array-ness
AssignCheck_base_only(s, f, t1) ==
    LET ctxa == <<"for assignment to '%s'", f.id>>
    IN  IF IS_INTEGER_TYPE(f.proptype) /\ ~IS_INTEGER_TYPE(t1)
        THEN chktypes(s, t1, f.proptype, f.pos, ctxa)
        ELSE IF IS_BOOLEAN_TYPE(f.proptype) /\ ~IS_BOOLEAN_TYPE(t1)
        THEN chktypes(s, t1, f.proptype, f.pos, ctxa)
        ELSE s

\* the type checks of parse_assign after the right-hand expression
AssignCheck(s, f, t1) ==
    LET ctxa == <<"for assignment to '%s'", f.id>>
        s1 == IF f.indexed
              THEN IF ~IS_ARRAY(t1)
                   THEN chktypes(s, t1, f.proptype, f.pos,
                                 <<"for allocation to indexed array '%s'",
                                   f.id>>)
                   ELSE s
              ELSE IF IS_ARRAY(t1) # IS_ARRAY(f.original_proptype)
                   THEN chktypes(s, t1, f.original_proptype, f.pos, ctxa)
                   ELSE s
    IN  IF ~Running(s1) THEN s1
        ELSE IF IS_INTEGER_TYPE(f.proptype) /\ ~IS_INTEGER_TYPE(t1)
        THEN chktypes(s1, t1, f.proptype, f.pos, ctxa)
        ELSE IF IS_BOOLEAN_TYPE(f.proptype) /\ ~IS_BOOLEAN_TYPE(t1)
        THEN chktypes(s1, t1, f.proptype, f.pos, ctxa)
        ELSE s1

\* frame: id, idpos, pos, proptype, original_proptype, indexed
parse_assign(s, in) ==
    LET f == Top(s)
        tt == s.token.type
    IN  CASE f.pc = 0 ->
               LET s1 == expect(s, in, "TOK_LET")
               IN  IF Running(s1) THEN SetTop(s1, [f EXCEPT !.pc = 1]) ELSE s1
          [] f.pc = 1 ->
               LET idpos == s.position
                   id == s.token.lexeme
                   s1 == expect_id(s, in)
                   prop == find_name(s1, id)
               IN  IF ~Running(s1) THEN s1
                   ELSE IF prop = NULL
                   THEN abort_at(s1, idpos, "ERR_UNKNOWN_IDENTIFIER", id,
                                 in.ub)
                   ELSE IF IS_CALLABLE_TYPE(prop.type)
                   THEN abort_at(s1, idpos, "ERR_NOT_A_VARIABLE", id, in.ub)
                   ELSE LET f1 == [f EXCEPT !.pc = 2, !.id = id,
                                            !.idpos = idpos,
                                            !.proptype = prop.type,
                                            !.original_proptype = prop.type]
                        IN  IF s1.token.type = "TOK_LBRACK"
                            THEN IF ~IS_ARRAY_TYPE(prop.type)
                                 THEN abort_at(s1, idpos, "ERR_NOT_AN_ARRAY",
                                               id, in.ub)
                                 ELSE Call(SetTop(s1, [f1 EXCEPT
                                               !.proptype =
                                                   BitXor(@, TYPE_ARRAY),
                                               !.indexed = TRUE]),
                                           2, [Frame("parse_index") EXCEPT
                                                   !.id = id])
                            ELSE SetTop(s1, f1)
          [] f.pc = 2 ->
               LET s1 == expect(s, in, "TOK_EQ")
                   f1 == [f EXCEPT !.pos = s1.position]
               IN  IF ~Running(s1) THEN s1
                   ELSE IF STARTS_EXPR(s1.token.type)
                   THEN Call(SetTop(s1, f1), 3, Frame("parse_expr"))
                   ELSE IF s1.token.type = "TOK_ARRAY"
                   THEN IF ~IS_ARRAY(f.original_proptype)
                        THEN abort_at(s1, f.idpos, "ERR_NOT_AN_ARRAY", f.id,
                                      in.ub)
                        ELSE SetTop(s1, [f1 EXCEPT !.pc = 4])
                   ELSE abort_c(s1,
                                "ERR_EXPECTED_EXPRESSION_OR_ARRAY_ALLOCATION",
                                NoArg, in.ub)
          [] f.pc = 3 ->
               LET s1 == AssignCheck(s, f, s.ret)
               IN  IF Running(s1) THEN Return(s1) ELSE s1
          [] f.pc = 4 ->
               LET s1 == get_token(s, in.nx)
               IN  Call(SetTop(s1, [f EXCEPT !.pos = s1.position]), 5,
                        Frame("parse_simple"))
          [] OTHER ->
               LET s1 == chktypes(s, s.ret, TYPE_INTEGER, f.pos,
                                  <<"for array size of '%s'", f.id>>)
               IN  IF Running(s1) THEN Return(s1) ELSE s1

\* GuardThen without the type check of the guard
GuardThen_unchecked(s, in, f, what, pc) ==
    LET s2 == expect(s, in, "TOK_COLON")
    IN  IF Running(s2) THEN Call(s2, pc, Frame("parse_statements")) ELSE s2

\* a guard's type check, the `:` and the call of parse_statements
GuardThen(s, in, f, what, pc) ==
    LET s1 == chktypes(s, s.ret, TYPE_BOOLEAN, f.pos, <<what>>)
        s2 == IF Running(s1) THEN expect(s1, in, "TOK_COLON") ELSE s1
    IN  IF Running(s2) THEN Call(s2, pc, Frame("parse_statements")) ELSE s2

\* the keyword, the capture of pos and the call of parse_expr
GuardExpr(s, in, f, kw, pc) ==
    LET s1 == expect(s, in, kw)
    IN  IF Running(s1)
        THEN Call(SetTop(s1, [f EXCEPT !.pos = s1.position]), pc,
                  Frame("parse_expr"))
        ELSE s1

parse_if(s, in) ==
    LET f == Top(s)
        tt == s.token.type
    IN  CASE f.pc = 0 -> GuardExpr(s, in, f, "TOK_IF", 1)
          [] f.pc = 1 -> GuardThen(s, in, f, "for 'if' guard", 2)
          [] f.pc = 2 ->
               IF tt = "TOK_ELIF" THEN GuardExpr(s, in, f, "TOK_ELIF", 3)
               ELSE IF tt = "TOK_ELSE"
               THEN SetTop(get_token(s, in.nx), [f EXCEPT !.pc = 4])
               ELSE LET s1 == expect(s, in, "TOK_END")
                    IN  IF Running(s1) THEN Return(s1) ELSE s1
          [] f.pc = 3 -> GuardThen(s, in, f, "for 'elif' guard", 2)
          [] f.pc = 4 ->
               LET s1 == expect(s, in, "TOK_COLON")
               IN  IF Running(s1) THEN Call(s1, 5, Frame("parse_statements"))
                   ELSE s1
          [] OTHER ->
               LET s1 == expect(s, in, "TOK_END")
               IN  IF Running(s1) THEN Return(s1) ELSE s1

parse_while(s, in) ==
    LET f == Top(s)
    IN  CASE f.pc = 0 -> GuardExpr(s, in, f, "TOK_WHILE", 1)
          [] f.pc = 1 -> GuardThen(s, in, f, "for 'while' guard", 2)
          [] OTHER ->
               LET s1 == expect(s, in, "TOK_END")
               IN  IF Running(s1) THEN Return(s1) ELSE s1

\* frame: id, pos
parse_input(s, in) ==
    LET f == Top(s)
    IN  CASE f.pc = 0 ->
               LET s1 == expect(s, in, "TOK_INPUT")
               IN  IF Running(s1) THEN SetTop(s1, [f EXCEPT !.pc = 1]) ELSE s1
          [] f.pc = 1 ->
               LET s1 == expect(s, in, "TOK_LPAREN")
               IN  IF Running(s1) THEN SetTop(s1, [f EXCEPT !.pc = 2]) ELSE s1
          [] f.pc = 2 ->
               LET pos == s.position
                   id == s.token.lexeme
                   s1 == expect_id(s, in)
                   prop == find_name(s1, id)
               IN  IF ~Running(s1) THEN s1
                   ELSE IF prop = NULL
                   THEN abort_at(s1, pos, "ERR_UNKNOWN_IDENTIFIER", id, in.ub)
                   ELSE IF s1.token.type = "TOK_LBRACK"
                   THEN IF ~IS_ARRAY(prop.type)
                        THEN abort_at(s1, pos, "ERR_NOT_AN_ARRAY", id, in.ub)
                        ELSE Call(s1, 3, [Frame("parse_index") EXCEPT
                                              !.id = id])
                   ELSE IF IS_ARRAY(prop.type)
                   THEN abort_at(s1, pos, "ERR_EXPECTED_SCALAR", NoArg, in.ub)
                   ELSE SetTop(s1, [f EXCEPT !.pc = 3])
          [] OTHER ->
               LET s1 == expect(s, in, "TOK_RPAREN")
               IN  IF Running(s1) THEN Return(s1) ELSE s1

\* the end of one output item: the `..` loop or the closing parenthesis
OutputNext(s, in, f) ==
    IF s.token.type = "TOK_DOTDOT"
    THEN SetTop(get_token(s, in.nx), [f EXCEPT !.pc = 2, !.pos = s.position])
    ELSE LET s1 == expect(s, in, "TOK_RPAREN")
         IN  IF Running(s1) THEN Return(s1) ELSE s1

\* frame: pos
parse_output(s, in) ==
    LET f == Top(s)
        tt == s.token.type
    IN  CASE f.pc = 0 ->
               LET s1 == expect(s, in, "TOK_OUTPUT")
               IN  IF Running(s1)
                   THEN SetTop(s1, [f EXCEPT !.pc = 1, !.pos = s.position])
                   ELSE s1
          [] f.pc = 1 ->
               LET s1 == expect(s, in, "TOK_LPAREN")
               IN  IF Running(s1) THEN SetTop(s1, [f EXCEPT !.pc = 2]) ELSE s1
          [] f.pc = 2 ->
               IF tt = "TOK_STR"
               THEN SetTop(get_token(s, in.nx), [f EXCEPT !.pc = 4])
               ELSE IF STARTS_EXPR(tt) THEN Call(s, 3, Frame("parse_expr"))
               ELSE abort_c(s, "ERR_EXPECTED_EXPRESSION_OR_STRING", NoArg,
                            in.ub)
          [] f.pc = 3 ->
               IF IS_ARRAY(s.ret)
               THEN abort_at(s, f.pos, "ERR_ILLEGAL_ARRAY_OPERATION",
                             "'output'", in.ub)
               ELSE OutputNext(s, in, f)
          [] OTHER -> OutputNext(s, in, f)

-----------------------------------------------------------------------------
(* The source files compiled.  A source is a fixed prefix of tokens         *)
(* followed by up to `free` tokens drawn from an alphabet and the end of    *)
(* the file; its first token begins at one of the origins.                  *)

Kw(k) == T(k)

Prog == <<Kw("TOK_PROGRAM"), Id("p"), Kw("TOK_COLON")>>

\* `id ( type id {, type id} )` for the parameters given
Param(ty, name) ==
    IF IS_ARRAY_TYPE(ty)
    THEN <<Kw(IF IS_BOOLEAN_TYPE(ty) THEN "TOK_BOOL" ELSE "TOK_INT"),
           Kw("TOK_ARRAY"), Id(name)>>
    ELSE <<Kw(IF IS_BOOLEAN_TYPE(ty) THEN "TOK_BOOL" ELSE "TOK_INT"),
           Id(name)>>

Header1(sub, ty, name) ==
    <<Id(sub), Kw("TOK_LPAREN")>> \o Param(ty, name) \o <<Kw("TOK_RPAREN")>>

Header2(sub, ty1, name1, ty2, name2) ==
    <<Id(sub), Kw("TOK_LPAREN")>> \o Param(ty1, name1) \o <<Kw("TOK_COMMA")>>
        \o Param(ty2, name2) \o <<Kw("TOK_RPAREN")>>

Colon == <<Kw("TOK_COLON")>>
Chillax == <<Kw("TOK_CHILLAX")>>
Main == <<Kw("TOK_MAIN"), Kw("TOK_COLON")>>
ArrowInt == <<Kw("TOK_ARROW"), Kw("TOK_INT")>>
ArrowBool == <<Kw("TOK_ARROW"), Kw("TOK_BOOL")>>

\* the token kinds of declarations and of the statements `call` and `return`
DeclAlphabet ==
    {Id(n) : n \in Names} \cup
    {Kw(k) : k \in {"TOK_INT", "TOK_BOOL", "TOK_ARRAY", "TOK_LPAREN",
                    "TOK_RPAREN", "TOK_COMMA", "TOK_COLON", "TOK_SEMICOLON",
                    "TOK_ARROW", "TOK_MAIN", "TOK_CHILLAX", "TOK_RETURN",
                    "TOK_TRUE", "TOK_PROGRAM"}} \cup {Num}

\* the token kinds of a body: those, and the statements `let` and `input`
BodyAlphabet == DeclAlphabet \cup {Kw("TOK_LET"), Kw("TOK_INPUT")}

Origins == {[line |-> 1, col |-> 1], [line |-> 2, col |-> 3]}
Origin1 == {[line |-> 1, col |-> 1]}

Scenario(name, prefix, alpha, free, origins) ==
    [name |-> name, prefix |-> prefix, alphabet |-> alpha, free |-> free,
     origins |-> origins]

\* a program that uses every statement and every expression form
Tour ==
    Prog \o Header2("f", 4, "a", 2, "n") \o ArrowInt \o Colon
    \o <<Kw("TOK_INT"), Kw("TOK_ARRAY"), Id("g"), Kw("TOK_SEMICOLON"),
         Kw("TOK_LET"), Id("g"), Kw("TOK_EQ"), Kw("TOK_ARRAY"), Num,
         Kw("TOK_SEMICOLON"),
         Kw("TOK_LET"), Id("g"), Kw("TOK_LBRACK"), Num, Kw("TOK_RBRACK"),
         Kw("TOK_EQ"), Id("a"), Kw("TOK_PLUS"), Num, Kw("TOK_MUL"), Num,
         Kw("TOK_SEMICOLON"),
         Kw("TOK_IF"), Id("n"), Kw("TOK_AND"), Kw("TOK_TRUE"),
         Kw("TOK_COLON"), Kw("TOK_INPUT"), Kw("TOK_LPAREN"), Id("a"),
         Kw("TOK_RPAREN"),
         Kw("TOK_ELIF"), Id("a"), Kw("TOK_LT"), Num, Kw("TOK_COLON"),
         Kw("TOK_OUTPUT"), Kw("TOK_LPAREN"), Kw("TOK_STR"), Kw("TOK_DOTDOT"),
         Id("a"), Kw("TOK_RPAREN"),
         Kw("TOK_ELSE"), Kw("TOK_COLON"), Kw("TOK_CHILLAX"), Kw("TOK_END"),
         Kw("TOK_SEMICOLON"),
         Kw("TOK_WHILE"), Kw("TOK_NOT"), Id("n"), Kw("TOK_COLON"),
         Kw("TOK_LET"), Id("a"), Kw("TOK_EQ"), Kw("TOK_MINUS"), Id("a"),
         Kw("TOK_END"), Kw("TOK_SEMICOLON"),
         Kw("TOK_INPUT"), Kw("TOK_LPAREN"), Id("g"), Kw("TOK_LBRACK"), Num,
         Kw("TOK_RBRACK"), Kw("TOK_RPAREN"), Kw("TOK_SEMICOLON"),
         Kw("TOK_RETURN"), Kw("TOK_LPAREN"), Id("a"), Kw("TOK_RPAREN")>>
    \o Main \o Chillax

\* `program p: f() -> int: return true end main: chillax`
EmptyParams ==
    Prog \o <<Id("f"), Kw("TOK_LPAREN"), Kw("TOK_RPAREN")>> \o ArrowInt
    \o Colon \o <<Kw("TOK_RETURN"), Kw("TOK_TRUE"), Kw("TOK_END")>> \o Main
    \o Chillax

\* `program p: f(int a) -> int: return true end main: chillax`
OneParam ==
    Prog \o Header1("f", 4, "a") \o ArrowInt \o Colon
    \o <<Kw("TOK_RETURN"), Kw("TOK_TRUE"), Kw("TOK_END")>> \o Main \o Chillax

\* `program p: f(int a) -> int: return f main: chillax`
ReturnName ==
    Prog \o Header1("f", 4, "a") \o ArrowInt \o Colon
    \o <<Kw("TOK_RETURN"), Id("f")>> \o Main \o Chillax

\* the declarations of the programs with expressions:
\* `program p: g(int a, bool n): chillax f(int a) -> int: return a
\*  h(bool n) -> bool: return n main: int a; bool b; int array x;
\*  bool array n;`
World ==
    Prog \o Header2("g", 4, "a", 2, "n") \o Colon \o Chillax
    \o Header1("f", 4, "a") \o ArrowInt \o Colon
    \o <<Kw("TOK_RETURN"), Id("a")>>
    \o Header1("h", 2, "n") \o ArrowBool \o Colon
    \o <<Kw("TOK_RETURN"), Id("n")>>
    \o Main
    \o <<Kw("TOK_INT"), Id("a"), Kw("TOK_SEMICOLON"),
         Kw("TOK_BOOL"), Id("b"), Kw("TOK_SEMICOLON"),
         Kw("TOK_INT"), Kw("TOK_ARRAY"), Id("x"), Kw("TOK_SEMICOLON"),
         Kw("TOK_BOOL"), Kw("TOK_ARRAY"), Id("n"), Kw("TOK_SEMICOLON")>>

\* the tokens of an argument list
ArgAlphabet ==
    {Id(n) : n \in {"a", "x", "n", "f"}} \cup
    {Num, Kw("TOK_TRUE"), Kw("TOK_COMMA"), Kw("TOK_RPAREN")}

\* the tokens after `let`
TargetAlphabet ==
    {Id(n) : n \in {"a", "x", "f", "p"}} \cup
    {Num, Kw("TOK_LBRACK"), Kw("TOK_EQ"), Kw("TOK_ARRAY")}

\* the tokens of the right-hand side of an assignment
ValueAlphabet ==
    {Id(n) : n \in {"a", "b", "x", "n", "f"}} \cup
    {Num, Kw("TOK_TRUE"), Kw("TOK_ARRAY")}

\* `let id =` after the declarations
LetEq(id) == World \o <<Kw("TOK_LET"), Id(id), Kw("TOK_EQ")>>

\* the tokens of a guard
GuardAlphabet ==
    {Id(n) : n \in {"a", "b", "n", "h"}} \cup
    {Num, Kw("TOK_TRUE"), Kw("TOK_LT"), Kw("TOK_COLON")}

\* the tokens of a relation
RelationAlphabet ==
    {Id(n) : n \in {"a", "b", "x", "f"}} \cup
    {Num, Kw("TOK_TRUE"), Kw("TOK_EQ"), Kw("TOK_LT")}

\* the tokens of a simple expression
SimpleAlphabet ==
    {Id(n) : n \in {"a", "b", "x", "f"}} \cup
    {Num, Kw("TOK_MINUS"), Kw("TOK_PLUS"), Kw("TOK_OR"), Kw("TOK_MUL"),
     Kw("TOK_AND")}

\* the tokens of the operand of `input`
InputAlphabet ==
    {Id(n) : n \in {"a", "x", "n", "f", "p"}} \cup
    {Num, Kw("TOK_TRUE"), Kw("TOK_LBRACK"), Kw("TOK_RBRACK"),
     Kw("TOK_RPAREN")}

\* the tokens of a call
CallAlphabet ==
    {Id(n) : n \in Names} \cup
    {Kw(k) : k \in {"TOK_LPAREN", "TOK_RPAREN", "TOK_SEMICOLON"}} \cup {Num}

\* a program whose first subroutine calls the second
Forward ==
    Prog \o Header1("f", 4, "a") \o Colon
    \o <<Id("g"), Kw("TOK_LPAREN"), Id("a"), Kw("TOK_RPAREN")>>
    \o Header1("g", 4, "n") \o Colon \o Chillax
    \o Main \o Chillax

Scenarios ==
    { Scenario("start", <<>>, DeclAlphabet, MaxFree, Origins),
      Scenario("envelope", Prog, DeclAlphabet, MaxFree, Origin1),
      Scenario("proc", Prog \o Header2("f", 4, "a", 2, "n") \o Colon,
               BodyAlphabet, MaxFree, Origin1),
      Scenario("func", Prog \o Header1("f", 4, "a") \o ArrowInt \o Colon,
               BodyAlphabet, MaxFree, Origin1),
      Scenario("second",
               Prog \o Header2("f", 4, "a", 2, "n") \o Colon \o Chillax,
               DeclAlphabet, MaxFree, Origin1),
      Scenario("second_body",
               Prog \o Header2("f", 4, "a", 2, "n") \o Colon \o Chillax
                    \o Header1("g", 2, "a") \o Colon,
               BodyAlphabet, MaxFree, Origin1),
      Scenario("dupsub",
               Prog \o Header1("f", 4, "a") \o Colon \o Chillax
                    \o Header1("f", 2, "n"),
               DeclAlphabet, MaxFree, Origin1),
      Scenario("dupparam",
               Prog \o <<Id("f"), Kw("TOK_LPAREN"), Kw("TOK_INT"), Id("a"),
                         Kw("TOK_COMMA"), Kw("TOK_BOOL")>>,
               DeclAlphabet, MaxFree, Origin1),
      Scenario("main",
               Prog \o Header1("f", 4, "a") \o Colon \o Chillax
                    \o Header1("g", 2, "n") \o ArrowBool \o Colon
                    \o <<Kw("TOK_RETURN"), Id("n")>> \o Main,
               BodyAlphabet, MaxFree, Origin1),
      Scenario("main_var",
               Prog \o Header1("f", 4, "a") \o Colon \o Chillax \o Main
                    \o <<Kw("TOK_INT"), Id("a")>>,
               BodyAlphabet, MaxFree, Origin1),
      Scenario("call_proc", World \o <<Id("g"), Kw("TOK_LPAREN")>>,
               ArgAlphabet, MaxFree, Origin1),
      Scenario("call_proc_second",
               World \o <<Id("g"), Kw("TOK_LPAREN"), Num, Kw("TOK_COMMA")>>,
               ArgAlphabet, MaxFree, Origin1),
      Scenario("call_func",
               World \o <<Kw("TOK_LET"), Id("a"), Kw("TOK_EQ"), Id("f"),
                          Kw("TOK_LPAREN")>>,
               ArgAlphabet, MaxFree, Origin1),
      Scenario("assign", World \o <<Kw("TOK_LET")>>, TargetAlphabet,
               MaxFree, Origin1),
      Scenario("assign_indexed",
               World \o <<Kw("TOK_LET"), Id("x"), Kw("TOK_LBRACK"), Num,
                          Kw("TOK_RBRACK"), Kw("TOK_EQ")>>,
               ValueAlphabet, MaxFree, Origin1),
      Scenario("assign_array", LetEq("x"), ValueAlphabet, MaxFree, Origin1),
      Scenario("assign_scalar", LetEq("b"), ValueAlphabet, MaxFree, Origin1),
      Scenario("guard_if", World \o <<Kw("TOK_IF")>>, GuardAlphabet,
               MaxFree, Origin1),
      Scenario("guard_elif",
               World \o <<Kw("TOK_IF"), Kw("TOK_TRUE")>> \o Colon \o Chillax
               \o <<Kw("TOK_ELIF")>>,
               GuardAlphabet, MaxFree, Origin1),
      Scenario("guard_while", World \o <<Kw("TOK_WHILE")>>, GuardAlphabet,
               MaxFree, Origin1),
      Scenario("relation", LetEq("b"), RelationAlphabet, MaxFree, Origin1),
      Scenario("simple", LetEq("a"), SimpleAlphabet, MaxFree, Origin1),
      Scenario("chain", LetEq("a") \o <<Num, Kw("TOK_PLUS")>>,
               SimpleAlphabet, MaxFree, Origin1),
      Scenario("negated", LetEq("a") \o <<Kw("TOK_MINUS"), Num>>,
               SimpleAlphabet, MaxFree, Origin1),
      Scenario("negation", LetEq("b") \o <<Kw("TOK_NOT")>>, ValueAlphabet,
               MaxFree, Origin1),
      Scenario("input", World \o <<Kw("TOK_INPUT"), Kw("TOK_LPAREN")>>,
               InputAlphabet, MaxFree, Origin1),
      Scenario("forward", Forward, {}, 0, Origin1),
      Scenario("shadow_param",
               Prog \o Header1("f", 4, "a") \o Colon \o Chillax
                    \o <<Id("g"), Kw("TOK_LPAREN"), Kw("TOK_INT"), Id("n"),
                         Kw("TOK_COMMA"), Kw("TOK_BOOL")>>,
               DeclAlphabet, MaxFree, Origin1),
      Scenario("earlier_function",
               Prog \o Header1("f", 4, "a") \o ArrowInt \o Colon
                    \o <<Kw("TOK_RETURN"), Id("a")>>
                    \o Header1("g", 4, "n") \o Colon
                    \o <<Kw("TOK_LET"), Id("n"), Kw("TOK_EQ")>>,
               CallAlphabet, MaxFree, Origin1),
      Scenario("tour", Tour, {}, 0, Origin1),
      Scenario("empty_params", EmptyParams, {}, 0, Origin1),
      Scenario("one_param", OneParam, {}, 0, Origin1),
      Scenario("return_name", ReturnName, {}, 0, Origin1) }

Init ==
    \E sc \in Scenarios : \E o \in sc.origins :
        /\ token = NoToken
        /\ position = NoPos
        /\ pending = sc.prefix
        /\ budget = sc.free
        /\ alphabet = sc.alphabet
        /\ ntok = 0
        /\ origin0 = o
        /\ stack = <<Frame("main")>>
        /\ ret = 0
        /\ heap = <<>>
        /\ table = NullTable
        /\ saved_table = NullTable
        /\ curr_offset = 0
        /\ saved_offset = 0
        /\ return_type = TYPE_NONE
        /\ status = "running"
        /\ diags = <<>>
        /\ hist = [subs |-> <<>>, locals |-> <<>>, closed |-> {},
                   unit |-> "pre", scn |-> sc.name, toks |-> <<>>,
                   owned |-> {}, freed |-> {}, twice |-> {}]

\* the routine at the top of the call stack
Active(fn) == status = "running" /\ stack # <<>> /\ Top(S).fn = fn

\* the inputs of a step that reads no missing argument
In(nx) == [nx |-> nx, ub |-> Garbage]

MainStep == Active("main") /\ \E nx \in NextTokens(S) : Apply(main(S, In(nx)))

ParseProgram ==
    Active("parse_program")
    /\ \E nx \in NextTokens(S) : Apply(parse_program(S, In(nx)))

ParseSubdef ==
    Active("parse_subdef")
    /\ \E nx \in NextTokens(S) : Apply(parse_subdef(S, In(nx)))

ParseBody ==
    Active("parse_body")
    /\ \E nx \in NextTokens(S) : Apply(parse_body(S, In(nx)))

ParseType ==
    Active("parse_type")
    /\ \E nx \in NextTokens(S) : Apply(parse_type(S, In(nx)))

ParseVardef ==
    Active("parse_vardef")
    /\ \E nx \in NextTokens(S) : Apply(parse_vardef(S, In(nx)))

ParseStatements ==
    Active("parse_statements")
    /\ \E nx \in NextTokens(S) : Apply(parse_statements(S, In(nx)))

ParseStatement ==
    Active("parse_statement")
    /\ \E nx \in NextTokens(S) : Apply(parse_statement(S, In(nx)))

ParseAssign ==
    Active("parse_assign")
    /\ \E nx \in NextTokens(S) : Apply(parse_assign(S, In(nx)))

\* parse_call reads a missing argument when it reports a function
ParseCall ==
    Active("parse_call")
    /\ \E nx \in NextTokens(S), ub \in UBStrings :
           Apply(parse_call(S, [nx |-> nx, ub |-> ub]))

ParseIf ==
    Active("parse_if")
    /\ \E nx \in NextTokens(S) : Apply(parse_if(S, In(nx)))

\* parse_input reads a missing argument when it reports an array
ParseInput ==
    Active("parse_input")
    /\ \E nx \in NextTokens(S), ub \in UBStrings :
           Apply(parse_input(S, [nx |-> nx, ub |-> ub]))

ParseOutput ==
    Active("parse_output")
    /\ \E nx \in NextTokens(S) : Apply(parse_output(S, In(nx)))

ParseReturn ==
    Active("parse_return")
    /\ \E nx \in NextTokens(S) : Apply(parse_return(S, In(nx)))

ParseWhile ==
    Active("parse_while")
    /\ \E nx \in NextTokens(S) : Apply(parse_while(S, In(nx)))

ParseArglist ==
    Active("parse_arglist")
    /\ \E nx \in NextTokens(S) : Apply(parse_arglist(S, In(nx)))

ParseIndex ==
    Active("parse_index")
    /\ \E nx \in NextTokens(S) : Apply(parse_index(S, In(nx)))

ParseExpr ==
    Active("parse_expr")
    /\ \E nx \in NextTokens(S) : Apply(parse_expr(S, In(nx)))

ParseSimple ==
    Active("parse_simple")
    /\ \E nx \in NextTokens(S) : Apply(parse_simple(S, In(nx)))

ParseTerm ==
    Active("parse_term")
    /\ \E nx \in NextTokens(S) : Apply(parse_term(S, In(nx)))

ParseFactor ==
    Active("parse_factor")
    /\ \E nx \in NextTokens(S) : Apply(parse_factor(S, In(nx)))

Next ==
    \/ MainStep
    \/ ParseProgram
    \/ ParseSubdef
    \/ ParseBody
    \/ ParseType
    \/ ParseVardef
    \/ ParseStatements
    \/ ParseStatement
    \/ ParseAssign
    \/ ParseCall
    \/ ParseIf
    \/ ParseInput
    \/ ParseOutput
    \/ ParseReturn
    \/ ParseWhile
    \/ ParseArglist
    \/ ParseIndex
    \/ ParseExpr
    \/ ParseSimple
    \/ ParseTerm
    \/ ParseFactor

Spec == Init /\ [][Next]_vars

-----------------------------------------------------------------------------
(* The hash table on its own: one table, a sequence of ht_insert calls with *)
(* keys that are new or have been inserted before, and ht_search calls.     *)
(* The table is heap[1].ht; hist records the calls: the keys in the order   *)
(* of their first insert with the values given then, the last call, its     *)
(* key and its result.                                                      *)

\* number of distinct keys a run inserts
MaxKeys == 24

\* the value pointers: FirstValue(k) is given by the k-th new key's insert,
\* OtherValue by every repeated insert
FirstValue(k) == [type |-> TYPE_INTEGER, offset |-> k, nparams |-> 0,
                  params |-> <<>>]
OtherValue == [type |-> TYPE_BOOLEAN, offset |-> 0, nparams |-> 0,
               params |-> <<>>]

\* the orders in which a run meets its keys
RECURSIVE Reverse(_)
Reverse(seq) ==
    IF seq = <<>> THEN <<>> ELSE Append(Reverse(Tail(seq)), Head(seq))

\* the keys of a run: the letters and the two-letter keys
Keys ==
    Letters \o <<"aa", "ab", "ac", "ad", "ba", "bb", "bc", "bd",
                 "ca", "cb", "cc", "cd", "da", "db", "dc", "dd">>

\* keys that share buckets: a, n, ac, cb at capacity 13; c, aa, bb, cc and
\* e, ac, bd and d, ab, bc, cd at 31; t, ba and u, bb and v, bc at 61
Colliding ==
    <<"a", "n", "ac", "cb", "b", "o", "c", "aa", "bb", "cc", "e", "bd",
      "ba", "d", "ab", "bc", "cd", "t", "u", "v", "w", "f", "ad", "h",
      "da", "g">>

KeyOrders ==
    {SubSeq(Letters, 1, MaxKeys),
     Reverse(SubSeq(Letters, 1, MaxKeys)),
     SubSeq(Colliding, 1, MaxKeys)}

InitTable ==
    \E order \in KeyOrders :
        /\ token = NoToken
        /\ position = NoPos
        /\ pending = <<>>
        /\ budget = 0
        /\ alphabet = {}
        /\ ntok = 0
        /\ origin0 = NoPos
        /\ stack = <<>>
        /\ ret = NULL
        /\ heap = <<[ht |-> ht_init, live |-> TRUE]>>
        /\ table = 1
        /\ saved_table = NullTable
        /\ curr_offset = 0
        /\ saved_offset = 0
        /\ return_type = TYPE_NONE
        /\ status = "table"
        /\ diags = <<>>
        /\ hist = [order |-> order, first |-> <<>>, op |-> "ht_init",
                   key |-> "", rc |-> EXIT_SUCCESS]

\* the table after a call, with the call recorded
TableStep(ht, first, op, key, rc, found) ==
    /\ heap' = <<[ht |-> ht, live |-> TRUE]>>
    /\ hist' = [hist EXCEPT !.first = first, !.op = op, !.key = key,
                            !.rc = rc]
    /\ ret' = found
    /\ UNCHANGED <<token, position, pending, budget, alphabet, ntok, origin0,
                   stack, table, saved_table, curr_offset, saved_offset,
                   return_type, status, diags>>

\* ht_insert of the next key of the order, which is new
HtInsertNew ==
    /\ status = "table"
    /\ Len(hist.first) < MaxKeys
    /\ LET k == Len(hist.first) + 1
           key == hist.order[k]
           r == ht_insert(heap[1].ht, key, FirstValue(k))
       IN  TableStep(r.ht,
                     Append(hist.first, [key |-> key, value |-> FirstValue(k)]),
                     "ht_insert", key, r.rc, ret)

\* ht_insert of a key that has been inserted before
HtInsertAgain ==
    /\ status = "table"
    /\ \E i \in 1 .. Len(hist.first) :
           LET key == hist.first[i].key
               r == ht_insert(heap[1].ht, key, OtherValue)
           IN  TableStep(r.ht, hist.first, "ht_insert", key, r.rc, ret)

\* ht_search of any key
HtSearch ==
    /\ status = "table"
    /\ \E i \in 1 .. Len(Keys) :
           TableStep(heap[1].ht, hist.first, "ht_search", Keys[i],
                     hist.rc, ht_search(heap[1].ht, Keys[i]))

NextTable == HtInsertNew \/ HtInsertAgain \/ HtSearch

SpecTable == InitTable /\ [][NextTable]_vars


-----------------------------------------------------------------------------
(* Properties.  Scopes are read by inspection of every entry of a table,    *)
(* independently of the hash function.                                      *)

\* all entries of a hash table
Entries(ht) ==
    UNION {{ht.buckets[i][k] : k \in 1 .. Len(ht.buckets[i])} :
               i \in DOMAIN ht.buckets}

\* the values bound to name n in the table at an address
Bound(addr, n) ==
    IF addr = NullTable THEN {}
    ELSE {e.value : e \in {x \in Entries(heap[addr].ht) : x.key = n}}

\* the names a program can look up
AllNames == Names \cup MoreNames \cup {"p"}

\* the symbol table exists and has not been released by main
TablesLive == heap # <<>> /\ status # "accepted"

\* the last diagnostic printed
LastDiag == diags[Len(diags)]

\* the run has been rejected with error err
Rejected(err) ==
    status = "rejected" /\ Len(diags) = 1 /\ LastDiag.err = err

\* C1: a compile that has ended has accepted without a diagnostic or has
\* rejected with exactly one diagnostic, and a running compile has printed
\* none.
C1_OneOutcome ==
    /\ status \in {"running", "accepted", "rejected"}
    /\ status \in {"running", "accepted"} => diags = <<>>
    /\ status = "rejected" => Len(diags) = 1

\* what the lookup rule of C2 gives for name n: the binding in the active
\* scope, else the callable binding in the suspended scope, else nothing
LookupRule(n) ==
    IF Bound(table, n) # {} THEN Bound(table, n)
    ELSE {v \in Bound(saved_table, n) : IS_CALLABLE_TYPE(v.type)}

\* C2: find_name(n) returns the binding of n in the active scope if there is
\* one, else its callable binding in the suspended scope if a scope is
\* suspended, else not-found; and a step of a routine that only looks names
\* up changes neither scope nor the frame width.
C2_LookupRule ==
    /\ [](TablesLive =>
            \A n \in AllNames :
                IF LookupRule(n) = {} THEN find_name(S, n) = NULL
                ELSE LookupRule(n) = {find_name(S, n)})
    /\ [][(status = "running" /\ ~Active("main") /\ ~Active("parse_subdef")
             /\ ~Active("parse_vardef"))
            => UNCHANGED <<heap, table, saved_table, curr_offset>>]_vars

\* a name is found through the suspended scope while a subroutine body with
\* its own variables is parsed, and another name is found nowhere
C2_Witness ==
    /\ Active("parse_statement")
    /\ saved_table # NullTable /\ saved_table # table
    /\ \E n \in AllNames : Bound(table, n) # {}
    /\ \E n \in AllNames :
           Bound(table, n) = {} /\ find_name(S, n) # NULL
    /\ \E n \in AllNames : find_name(S, n) = NULL

\* the elements of a sequence
SeqSet(q) == {q[k] : k \in 1 .. Len(q)}

\* the names a closed subroutine defined that nothing defines now
Forgotten == hist.closed \ (SeqSet(hist.locals) \cup SeqSet(hist.subs))

\* the parser is about to look up the identifier n it is reading
UseOf(n) ==
    /\ token = Id(n)
    /\ \/ Active("parse_call") /\ Top(S).pc = 0
       \/ Active("parse_factor") /\ Top(S).pc = 0
       \/ Active("parse_assign") /\ Top(S).pc = 1
       \/ Active("parse_input") /\ Top(S).pc = 2

\* the diagnostic for error err about name n at position pos
NameDiag(err, n, pos) == [Diag(err) EXCEPT !.arg = n, !.pos = pos]

\* the only diagnostic is error err about name n at position pos
OnlyDiag(err, n, pos) == diags = <<NameDiag(err, n, pos)>>

\* C3: after close_subroutine for a subroutine S, in every later subroutine
\* body and in main, find_name does not find a parameter or local variable
\* name of S unless the name has been defined again, and it finds every
\* subroutine defined so far as a callable; a use of such a name of S is
\* rejected with ERR_UNKNOWN_IDENTIFIER.
C3_ScopeIsolation ==
    /\ [](TablesLive =>
            /\ \A n \in Forgotten : find_name(S, n) = NULL
            /\ \A n \in SeqSet(hist.subs) :
                   /\ find_name(S, n) # NULL
                   /\ IS_CALLABLE_TYPE(find_name(S, n).type))
    /\ [][\A n \in Forgotten :
              UseOf(n) =>
                  /\ status' = "rejected"
                  /\ diags' = <<NameDiag("ERR_UNKNOWN_IDENTIFIER", n,
                                          position)>>]_vars

\* in the body of a second subroutine a use of a parameter of the first one
\* has been rejected, while another parameter name of the first one is
\* defined again
C3_Witness ==
    /\ Rejected("ERR_UNKNOWN_IDENTIFIER")
    /\ hist.unit = "sub" /\ Len(hist.subs) = 2
    /\ LastDiag.arg \in hist.closed
    /\ hist.closed \cap SeqSet(hist.locals) # {}

\* C4: the k-th variable defined in the current subroutine or in main, the
\* parameters first, has offset k; get_variables_width() is 1 plus the number
\* of variables defined so far; and the width is 1 after every
\* open_subroutine and at the start of main.
C4_Offsets ==
    (TablesLive /\ table # NullTable) =>
        /\ get_variables_width(S) = 1 + Len(hist.locals)
        /\ \A k \in 1 .. Len(hist.locals) :
               /\ Cardinality(Bound(table, hist.locals[k])) = 1
               /\ \A v \in Bound(table, hist.locals[k]) :
                      v.offset = k /\ ~IS_CALLABLE_TYPE(v.type)
        /\ (status = "running" /\ hist.unit = "pre") =>
               \A n \in AllNames :
                   LET r == open_subroutine(
                                S, n, idpropt(TYPE_CALLABLE, curr_offset, 0,
                                              <<>>))
                   IN  r.ok => get_variables_width(r.s) = 1

\* two parameters and a local variable are defined in a subroutine
C4_Witness ==
    status = "running" /\ hist.unit = "sub" /\ Len(hist.locals) = 3

\* the address of the global scope table
GlobalScope == IF hist.unit = "sub" THEN saved_table ELSE table

\* the names the global scope table binds to callables, and to variables
GlobalCallables ==
    {e.key : e \in {x \in Entries(heap[GlobalScope].ht) :
                        IS_CALLABLE_TYPE(x.value.type)}}

GlobalVariables ==
    {e.key : e \in {x \in Entries(heap[GlobalScope].ht) :
                        ~IS_CALLABLE_TYPE(x.value.type)}}

\* C5 as stated: every entry of the global scope table has a callable value
\* type, so that the variables defined in main never appear in it.
C5_GlobalOnlyCallables == TablesLive => GlobalVariables = {}

\* C5 as the code has it: the global scope table binds exactly the
\* subroutines defined so far to callables; until the body of main it holds
\* nothing else, and the variables defined in main are inserted into it.
C5_GlobalScope ==
    TablesLive =>
        /\ GlobalCallables = SeqSet(hist.subs)
        /\ hist.unit # "main" => GlobalVariables = {}
        /\ hist.unit = "main" => GlobalVariables = SeqSet(hist.locals)

\* main has defined a variable after a subroutine was defined
C5_Witness ==
    /\ status = "running" /\ hist.unit = "main"
    /\ hist.locals # <<>> /\ hist.subs # <<>>
    /\ GlobalVariables # {}

\* the parser is about to define, as a variable, the identifier n it reads
VarDefOf(n) ==
    Active("parse_vardef") /\ Top(S).pc \in {1, 3} /\ token = Id(n)

\* the parser is about to open the subroutine whose header it has read
AtOpen ==
    /\ Active("parse_subdef")
    /\ \/ Top(S).pc = 4 /\ token.type # "TOK_ARROW"
       \/ Top(S).pc = 5

\* parameter k of a header repeats an earlier name of the header or the name
\* of a subroutine
Clash(f, k) ==
    f.head[k].id \in {f.head[j].id : j \in 1 .. k - 1}
                     \cup SeqSet(hist.subs) \cup {f.subid}

FirstClash(f) ==
    CHOOSE k \in 1 .. Len(f.head) :
        Clash(f, k) /\ \A j \in 1 .. k - 1 : ~Clash(f, j)

\* the scopes and the frame width stay as they are
ScopesUnchanged == UNCHANGED <<heap, table, saved_table, curr_offset>>

\* C6: defining a subroutine named like an earlier subroutine, or a parameter
\* or local variable named like an earlier parameter or local variable of
\* the same subroutine or of main, is rejected with ERR_MULTIPLE_DEFINITION
\* at the position of the re-defining identifier; the open_subroutine or
\* insert_name that fails returns false and leaves the bindings of the scopes
\* and the frame width unchanged.
C6_MultipleDefinition ==
    /\ [](TablesLive /\ table # NullTable =>
            \A n \in AllNames :
                /\ Bound(table, n) # {} =>
                       \A ty \in {TYPE_INTEGER, TYPE_BOOLEAN} :
                           LET r == insert_name(
                                        S, n, idpropt(ty, curr_offset, 0,
                                                      <<>>))
                           IN  ~r.ok /\ r.s = S
                /\ (Bound(table, n) # {} /\ hist.unit = "pre") =>
                       LET r == open_subroutine(
                                    S, n, idpropt(TYPE_CALLABLE, curr_offset,
                                                  0, <<>>))
                       IN  ~r.ok /\ r.s = [S EXCEPT
                                               !.saved_offset = curr_offset])
    /\ [][\A n \in SeqSet(hist.locals) :
              VarDefOf(n) =>
                  /\ status' = "rejected"
                  /\ diags' = <<NameDiag("ERR_MULTIPLE_DEFINITION", n,
                                          position)>>
                  /\ ScopesUnchanged]_vars
    /\ [][(AtOpen /\ Top(S).subid \in SeqSet(hist.subs)) =>
              /\ status' = "rejected"
              /\ diags' = <<NameDiag("ERR_MULTIPLE_DEFINITION",
                                      Top(S).subid, Top(S).pos2)>>
              /\ ScopesUnchanged]_vars
    /\ [][(/\ AtOpen
           /\ Top(S).subid \notin SeqSet(hist.subs)
           /\ \E k \in 1 .. Len(Top(S).head) : \E j \in 1 .. k - 1 :
                  Top(S).head[k].id = Top(S).head[j].id) =>
              LET k == FirstClash(Top(S))
              IN  /\ status' = "rejected"
                  /\ diags' = <<NameDiag("ERR_MULTIPLE_DEFINITION",
                                          Top(S).head[k].id,
                                          Top(S).head[k].pos)>>
                  /\ curr_offset' = k
                  /\ SeqSet(hist.locals') =
                         {Top(S).head[j].id : j \in 1 .. k - 1}]_vars
    /\ [](Rejected("ERR_MULTIPLE_DEFINITION") =>
              \E k \in 1 .. Len(hist.toks) :
                  /\ hist.toks[k] = Id(LastDiag.arg)
                  /\ LastDiag.pos = TokenPos(S, k - 1)
                  /\ \E j \in 1 .. k - 1 : hist.toks[j] = hist.toks[k])

\* a variable definition that repeats a parameter of its subroutine has been
\* rejected
C6_Witness ==
    /\ Rejected("ERR_MULTIPLE_DEFINITION")
    /\ hist.unit = "sub"
    /\ Len(hist.locals) = 2
    /\ LastDiag.arg \in SeqSet(hist.locals)

\* parse_return is about to read the keyword `return`
AtReturn ==
    Active("parse_return") /\ Top(S).pc = 0 /\ token.type = "TOK_RETURN"

\* parse_return has parsed the expression after `return`
AfterReturnExpr == Active("parse_return") /\ Top(S).pc = 1

\* C7: in a procedure a `return` that no expression follows is accepted, and
\* a `return` that an expression follows is rejected with
\* ERR_RETURN_EXPRESSION_NOT_ALLOWED.
C7_ProcedureReturn ==
    [][(AtReturn /\ IS_PROCEDURE(return_type)) =>
          IF STARTS_EXPR(token'.type)
          THEN /\ status' = "rejected"
               /\ Len(diags') = 1
               /\ diags'[1].err = "ERR_RETURN_EXPRESSION_NOT_ALLOWED"
          ELSE status' = "running" /\ diags' = <<>>]_vars

\* the diagnostic of a `return e` whose type is found instead of expected
ReturnMismatch(expected, found, pos) ==
    [Diag("ERR_TYPE_MISMATCH") EXCEPT !.expty = expected, !.fndty = found,
                                      !.ctx = <<"for 'return' statement">>,
                                      !.pos = pos]

\* C8: in a function whose declared return type without the callable bit is
\* T, `return e` is accepted exactly when the type of e is T and is otherwise
\* rejected with ERR_TYPE_MISMATCH, expected T and found the type of e, in
\* the context of the return statement; a `return` that no expression
\* follows is rejected with ERR_MISSING_RETURN_EXPRESSION; and return_type is
\* none while main is parsed.
C8_FunctionReturn ==
    /\ [][(AtReturn /\ IS_FUNCTION(return_type)
             /\ ~STARTS_EXPR(token'.type)) =>
              /\ status' = "rejected"
              /\ Len(diags') = 1
              /\ diags'[1].err = "ERR_MISSING_RETURN_EXPRESSION"]_vars
    /\ [][(AfterReturnExpr /\ IS_FUNCTION(return_type)) =>
              IF ret = SET_RETURN_TYPE(return_type)
              THEN status' = "running" /\ diags' = <<>>
              ELSE /\ status' = "rejected"
                   /\ diags' = <<ReturnMismatch(
                                     SET_RETURN_TYPE(return_type), ret,
                                     Top(S).pos)>>]_vars
    /\ [](hist.unit = "main" => return_type = TYPE_NONE)

\* the diagnostic "expected type specifier, but found <token>"
TypeSpecifierDiag(toktype, pos) ==
    [Diag("ERR_EXPECTED_TYPE_SPECIFIER") EXCEPT
         !.exptok = "type specifier", !.fndtok = get_token_string(toktype),
         !.pos = pos]

\* C9 as stated: for `program p: f() -> int: return true end main: chillax`
\* the header parses without a diagnostic and the compile is rejected with
\* ERR_TYPE_MISMATCH, expected integer and found boolean, for the return
\* statement, at the token after `return`.
C9_EmptyParameterList ==
    (hist.scn = "empty_params" /\ status # "running") =>
        /\ status = "rejected"
        /\ diags = <<ReturnMismatch(TYPE_INTEGER, TYPE_BOOLEAN,
                                    TokenPos(S, 10))>>

\* C9 as the code has it: a parameter list starts with a type, so `f()` is
\* rejected at `)` with ERR_EXPECTED_TYPE_SPECIFIER; with one parameter,
\* `program p: f(int a) -> int: return true end main: chillax`, the header
\* parses and the compile is rejected with ERR_TYPE_MISMATCH, expected
\* integer and found boolean, for the return statement, at the token after
\* `return`.
C9_HeaderNeedsParameter ==
    /\ [][(Active("parse_type") /\ Top(S).pc = 0
             /\ token.type \notin {"TOK_BOOL", "TOK_INT"}) =>
              /\ status' = "rejected"
              /\ diags' = <<TypeSpecifierDiag(token.type, position)>>]_vars
    /\ []((hist.scn = "empty_params" /\ status # "running") =>
              /\ status = "rejected"
              /\ diags = <<TypeSpecifierDiag("TOK_RPAREN", TokenPos(S, 5))>>)
    /\ []((hist.scn = "one_param" /\ status # "running") =>
              /\ status = "rejected"
              /\ diags = <<ReturnMismatch(TYPE_INTEGER, TYPE_BOOLEAN,
                                          TokenPos(S, 12))>>)

\* the program with the empty parameter list has been rejected at `)`
C9_Witness ==
    /\ hist.scn = "empty_params"
    /\ Rejected("ERR_EXPECTED_TYPE_SPECIFIER")
    /\ token.type = "TOK_RPAREN"
    /\ hist.subs = <<>>

\* C10: a call statement `x(...)` is rejected with ERR_UNKNOWN_IDENTIFIER
\* naming x when x is not defined, and with ERR_NOT_A_PROCEDURE naming x, at
\* the position of x and before a token of the argument list is consumed,
\* when x is a function or a variable; only a procedure goes on to the
\* argument list.
C10_CallStatement ==
    [][\A n \in AllNames :
           (Active("parse_call") /\ Top(S).pc = 0 /\ token = Id(n)) =>
               LET prop == find_name(S, n)
               IN  IF prop = NULL
                   THEN /\ status' = "rejected"
                        /\ diags' = <<NameDiag("ERR_UNKNOWN_IDENTIFIER", n,
                                               position)>>
                   ELSE IF ~IS_PROCEDURE(prop.type)
                   THEN /\ status' = "rejected"
                        /\ diags' = <<NameDiag("ERR_NOT_A_PROCEDURE", n,
                                               position)>>
                        /\ ntok' = ntok + 1
                   ELSE /\ status' = "running"
                        /\ Top(S)'.fn = "parse_arglist"]_vars

\* parse_arglist is at the first token after `(`
AtFirstArgument == Active("parse_arglist") /\ Top(S).pc = 1

\* parse_arglist has parsed an argument and the argument is well typed
AfterGoodArgument ==
    /\ Active("parse_arglist")
    /\ Top(S).pc = 2
    /\ Running(ArgCheck(S, Top(S), ret))

\* the step rejects with error err about name n
RejectsNaming(err, n) ==
    /\ status' = "rejected"
    /\ Len(diags') = 1
    /\ diags'[1].err = err
    /\ diags'[1].arg = n

\* C11: a call of a subroutine with n parameters that is given k well-typed
\* arguments is rejected with ERR_TOO_FEW_ARGUMENTS naming the subroutine
\* when k < n, the empty argument list included, with
\* ERR_TOO_MANY_ARGUMENTS naming it when k > n, and with neither when k = n.
C11_ArgumentCount ==
    /\ [][(AtFirstArgument /\ token.type = "TOK_RPAREN"
              /\ 0 < Top(S).prop.nparams) =>
             RejectsNaming("ERR_TOO_FEW_ARGUMENTS", Top(S).id)]_vars
    /\ [][AfterGoodArgument =>
             LET k == Top(S).i + 1
                 n == Top(S).prop.nparams
             IN  /\ (token.type = "TOK_COMMA" /\ k >= n) =>
                        RejectsNaming("ERR_TOO_MANY_ARGUMENTS", Top(S).id)
                 /\ (token.type = "TOK_RPAREN" /\ k < n) =>
                        RejectsNaming("ERR_TOO_FEW_ARGUMENTS", Top(S).id)
                 /\ (token.type = "TOK_RPAREN" /\ k = n) =>
                        status' = "running" /\ diags' = <<>>]_vars

\* the base of a type: its integer and boolean bits
BaseOf(t) == BitAnd(t, BitOr(TYPE_BOOLEAN, TYPE_INTEGER))

\* a scalar has neither the array nor the callable attribute
IsScalar(t) == ~IS_ARRAY_TYPE(t) /\ ~IS_CALLABLE_TYPE(t) /\ BaseOf(t) # 0

\* an array of a base that is not callable
IsArrayOfBase(t) == IS_ARRAY_TYPE(t) /\ ~IS_CALLABLE_TYPE(t) /\ BaseOf(t) # 0

\* the rule of C12 for an argument of type t1 and a parameter of type param
ArgumentFits(t1, param) ==
    \/ IsArrayOfBase(t1) /\ IsArrayOfBase(param) /\ BaseOf(t1) = BaseOf(param)
    \/ IsScalar(t1) /\ IsScalar(param) /\ BaseOf(t1) = BaseOf(param)
    \/ IS_CALLABLE_TYPE(t1) /\ IS_CALLABLE_TYPE(param)

\* the diagnostic of argument i of a call of id: expected the parameter type,
\* found the argument type, at pos
ArgMismatch(param, t1, i, id, pos) ==
    [Diag("ERR_TYPE_MISMATCH") EXCEPT
         !.expty = param, !.fndty = t1, !.pos = pos,
         !.ctx = <<"for argument %d of call to '%s'", i, id>>]

\* parse_arglist has parsed an argument and is about to check its type
AfterArgument == Active("parse_arglist") /\ Top(S).pc = 2

\* C12: the arguments of a call are checked left to right against the
\* parameter types in header order; argument i is accepted exactly when it
\* and parameter i are both arrays of the same base, both non-array scalars
\* of the same base, or both callable; the first argument that does not fit
\* is rejected with ERR_TYPE_MISMATCH for argument i of the call of id,
\* expected the parameter type and found the argument type, at the first
\* token of that argument, and no later argument is parsed.
C12_ArgumentTypes ==
    /\ [][AfterArgument =>
             LET f == Top(S)
                 param == f.prop.params[f.i + 1]
             IN  IF ArgumentFits(ret, param)
                 THEN ~(status' = "rejected" /\ Len(diags') = 1
                          /\ diags'[1].err = "ERR_TYPE_MISMATCH")
                 ELSE /\ status' = "rejected"
                      /\ diags' = <<ArgMismatch(param, ret, f.i + 1, f.id,
                                                f.pos)>>
                      /\ ntok' = ntok]_vars
    /\ [][(Active("parse_arglist") /\ status' = "running"
              /\ Len(stack') = Len(stack) + 1) =>
             /\ stack'[Len(stack')].fn = "parse_expr"
             /\ stack'[Len(stack)].pos = position'
             /\ stack'[Len(stack)].i =
                    IF Top(S).pc = 1 THEN 0 ELSE Top(S).i + 1]_vars
    /\ [](hist.scn \in {"call_proc", "call_proc_second"}
             /\ Active("parse_arglist") /\ Top(S).pc > 0
           => Top(S).prop.params = <<TYPE_INTEGER, TYPE_BOOLEAN>>)

\* parse_factor is at the identifier n and the token after it is `(`
AtCallFactor(n) ==
    /\ Active("parse_factor")
    /\ Top(S).pc = 0
    /\ token = Id(n)
    /\ token'.type = "TOK_LPAREN"
    /\ find_name(S, n) # NULL

\* C13: a factor `id(args)` whose id is a function of base T has the type T
\* with the callable bit cleared, the type the operators and guards ask of
\* an operand, and a factor `id(` whose id is defined and is not a function
\* is rejected with ERR_NOT_A_FUNCTION naming id.
C13_FunctionCallFactor ==
    [][\A n \in AllNames :
           AtCallFactor(n) =>
               LET prop == find_name(S, n)
               IN  IF IS_FUNCTION(prop.type)
                   THEN /\ status' = "running"
                        /\ Top(S)'.fn = "parse_arglist"
                        /\ stack'[Len(stack)].t0 = BaseOf(prop.type)
                        /\ ~IS_CALLABLE_TYPE(stack'[Len(stack)].t0)
                   ELSE RejectsNaming("ERR_NOT_A_FUNCTION", n)]_vars

\* parse_assign is at the identifier n after `let`
AtTarget(n) == Active("parse_assign") /\ Top(S).pc = 1 /\ token = Id(n)

\* parse_assign has parsed the expression on the right-hand side
AfterValue == Active("parse_assign") /\ Top(S).pc = 3

\* the step rejects with a type mismatch
RejectsMismatch ==
    /\ status' = "rejected"
    /\ Len(diags') = 1
    /\ diags'[1].err = "ERR_TYPE_MISMATCH"

\* the step goes on without a diagnostic
GoesOn == status' = "running" /\ diags' = <<>>

\* C14: for `let x[i] = e` with x an array of base T and i an integer, the
\* assignment is accepted exactly when the type of e is the non-array scalar
\* of base T, and an array e is rejected with ERR_TYPE_MISMATCH; x not
\* defined is rejected with ERR_UNKNOWN_IDENTIFIER, x callable with
\* ERR_NOT_A_VARIABLE, and x not an array with ERR_NOT_AN_ARRAY, each naming
\* x.
C14_IndexedAssignment ==
    /\ [][(AfterValue /\ Top(S).indexed) =>
             IF IsScalar(ret) /\ ret = BaseOf(Top(S).original_proptype)
             THEN GoesOn
             ELSE RejectsMismatch]_vars
    /\ [][\A n \in AllNames :
             AtTarget(n) =>
                 LET prop == find_name(S, n)
                 IN  IF prop = NULL
                     THEN RejectsNaming("ERR_UNKNOWN_IDENTIFIER", n)
                     ELSE IF IS_CALLABLE_TYPE(prop.type)
                     THEN RejectsNaming("ERR_NOT_A_VARIABLE", n)
                     ELSE IF token'.type = "TOK_LBRACK"
                     THEN IF IS_ARRAY_TYPE(prop.type)
                          THEN GoesOn /\ Top(S)'.fn = "parse_index"
                          ELSE RejectsNaming("ERR_NOT_AN_ARRAY", n)
                     ELSE GoesOn]_vars

\* parse_assign is at `=`
AtAssignEq ==
    Active("parse_assign") /\ Top(S).pc = 2 /\ token.type = "TOK_EQ"

\* parse_assign has parsed the size after `array`
AfterArraySize == Active("parse_assign") /\ Top(S).pc = 5

\* the type mismatch of an assignment with context ctx about name id
AssignMismatch(ctx, id, expected, found, pos) ==
    [Diag("ERR_TYPE_MISMATCH") EXCEPT
         !.expty = expected, !.fndty = found, !.pos = pos,
         !.ctx = <<ctx, id>>]

\* C15: `let x = e` is accepted exactly when e has the array-ness and the
\* base of x and is otherwise rejected with ERR_TYPE_MISMATCH for the
\* assignment to x; `let x = array s` is accepted exactly when x is an array
\* and s is integer, x not an array being rejected with ERR_NOT_AN_ARRAY and
\* s not integer with ERR_TYPE_MISMATCH for the array size of x; and a token
\* after `=` that neither starts an expression nor is `array` is rejected
\* with ERR_EXPECTED_EXPRESSION_OR_ARRAY_ALLOCATION.
C15_Assignment ==
    /\ [][(AfterValue /\ ~Top(S).indexed) =>
             LET f == Top(S)
                 x == f.original_proptype
             IN  IF IS_ARRAY(ret) = IS_ARRAY(x) /\ BaseOf(ret) = BaseOf(x)
                 THEN GoesOn
                 ELSE /\ status' = "rejected"
                      /\ diags' = <<AssignMismatch("for assignment to '%s'",
                                                   f.id, x, ret, f.pos)>>]_vars
    /\ [][AtAssignEq =>
             LET f == Top(S)
             IN  IF STARTS_EXPR(token'.type)
                 THEN GoesOn /\ Top(S)'.fn = "parse_expr"
                 ELSE IF token'.type = "TOK_ARRAY"
                 THEN f.indexed
                      \/ IF IS_ARRAY(f.original_proptype)
                         THEN GoesOn
                         ELSE RejectsNaming("ERR_NOT_AN_ARRAY", f.id)
                 ELSE /\ status' = "rejected"
                      /\ Len(diags') = 1
                      /\ diags'[1].err =
                             "ERR_EXPECTED_EXPRESSION_OR_ARRAY_ALLOCATION"]_vars
    /\ [][AfterArraySize =>
             LET f == Top(S)
             IN  IF ret = TYPE_INTEGER
                 THEN GoesOn
                 ELSE /\ status' = "rejected"
                      /\ diags' = <<AssignMismatch("for array size of '%s'",
                                                   f.id, TYPE_INTEGER, ret,
                                                   f.pos)>>]_vars

\* `let x = n` for the integer array x and the boolean array n has been
\* rejected for the assignment to x
C15_Witness ==
    /\ hist.scn = "assign_array"
    /\ Rejected("ERR_TYPE_MISMATCH")
    /\ LastDiag.ctx = <<"for assignment to '%s'", "x">>
    /\ LastDiag.expty = BitOr(TYPE_INTEGER, TYPE_ARRAY)
    /\ LastDiag.fndty = BitOr(TYPE_BOOLEAN, TYPE_ARRAY)

\* the routine fn has parsed the guard it resumes at pc for
AfterGuard(fn, pc) == Active(fn) /\ Top(S).pc = pc

\* the diagnostic of a guard: expected boolean, found the type of the guard
GuardMismatch(what, found, pos) ==
    [Diag("ERR_TYPE_MISMATCH") EXCEPT
         !.expty = TYPE_BOOLEAN, !.fndty = found, !.pos = pos,
         !.ctx = <<what>>]

\* what the step after a guard does under C16
GuardRule(what) ==
    IF ret = TYPE_BOOLEAN
    THEN IF token.type = "TOK_COLON"
         THEN GoesOn /\ Top(S)'.fn = "parse_statements"
         ELSE status' = "rejected" /\ Len(diags') = 1
              /\ diags'[1].err = "ERR_EXPECT"
    ELSE /\ status' = "rejected"
         /\ diags' = <<GuardMismatch(what, ret, Top(S).pos)>>
         /\ ntok' = ntok
         /\ token' = token

\* C16: the guard of `if`, `elif` and `while` is accepted exactly when its
\* type is the non-array boolean, and is otherwise rejected with
\* ERR_TYPE_MISMATCH, expected boolean, for the 'if', 'elif' or 'while'
\* guard, at the first token of the guard and before the `:` after it is
\* consumed.
C16_Guards ==
    /\ [][AfterGuard("parse_if", 1) => GuardRule("for 'if' guard")]_vars
    /\ [][AfterGuard("parse_if", 3) => GuardRule("for 'elif' guard")]_vars
    /\ [][AfterGuard("parse_while", 1) =>
             GuardRule("for 'while' guard")]_vars
    /\ [][((Active("parse_if") \/ Active("parse_while"))
              /\ token.type \in {"TOK_IF", "TOK_ELIF", "TOK_WHILE"}
              /\ status' = "running") =>
             /\ Top(S)'.fn = "parse_expr"
             /\ stack'[Len(stack)].pos = position'
             /\ position' = TokenPos(S, ntok)
             /\ ntok' = ntok + 1]_vars

\* the integer guard of an `elif` has been rejected with the `:` not read
C16_Witness ==
    /\ hist.scn = "guard_elif"
    /\ Rejected("ERR_TYPE_MISMATCH")
    /\ LastDiag.ctx = <<"for 'elif' guard">>
    /\ LastDiag.fndty = TYPE_INTEGER
    /\ token.type = "TOK_COLON"

\* the step returns to the caller without a diagnostic
Returns == GoesOn /\ stack' = SubSeq(stack, 1, Len(stack) - 1)

\* the step rejects with a type mismatch in the context of operator toktype
RejectsOperator(toktype) ==
    /\ RejectsMismatch
    /\ diags'[1].ctx = OpCtx(toktype)

\* the step rejects with ERR_ILLEGAL_ARRAY_OPERATION naming toktype
RejectsArray(toktype) ==
    RejectsNaming("ERR_ILLEGAL_ARRAY_OPERATION", get_token_string(toktype))

\* C17: in `a relop b` an array operand is rejected with
\* ERR_ILLEGAL_ARRAY_OPERATION naming the operator; `=` and `/=` are accepted
\* exactly when the operands have the same type and the ordering operators
\* exactly when both are integer, the failures being ERR_TYPE_MISMATCH for
\* the operator; an accepted relation has type boolean; and an expression
\* without a relational operator has the type of its simple expression.
C17_Relations ==
    /\ [][(Active("parse_expr") /\ Top(S).pc = 1) =>
             IF IS_RELOP(token.type)
             THEN IF IS_ARRAY(ret)
                  THEN RejectsArray(token.type)
                  ELSE GoesOn /\ Top(S)'.fn = "parse_simple"
             ELSE Returns /\ ret' = ret]_vars
    /\ [][(Active("parse_expr") /\ Top(S).pc = 2) =>
             LET t1 == Top(S).t1
                 op == Top(S).toktype
             IN  IF IS_ARRAY(ret)
                 THEN RejectsArray(op)
                 ELSE IF IF op \in {"TOK_EQ", "TOK_NE"}
                         THEN t1 = ret
                         ELSE t1 = TYPE_INTEGER /\ ret = TYPE_INTEGER
                 THEN Returns /\ ret' = TYPE_BOOLEAN
                 ELSE RejectsOperator(op)]_vars

\* the relation `a < 1` has been accepted as the boolean value of `let b =`
C17_Witness ==
    /\ hist.scn = "relation"
    /\ AfterValue
    /\ ret = TYPE_BOOLEAN
    /\ Len(hist.toks) > 3
    /\ hist.toks[Len(hist.toks) - 2].type = "TOK_LT"

\* the type operator toktype asks of its operands
OperandType(toktype) ==
    IF toktype \in {"TOK_OR", "TOK_AND"} THEN TYPE_BOOLEAN ELSE TYPE_INTEGER

\* what the step after the right operand t1 of operator op with left operand
\* t0 does under C18; an accepted operator stays in the routine or returns
BinaryRule(op, t0, t1) ==
    IF IS_ARRAY(t1)
    THEN RejectsArray(op)
    ELSE IF t0 = OperandType(op) /\ t1 = OperandType(op)
    THEN GoesOn
    ELSE /\ RejectsOperator(op)
         /\ diags'[1].expty = OperandType(op)
         /\ diags'[1].fndty = IF t0 # OperandType(op) THEN t0 ELSE t1

\* parse_simple has parsed the right operand of an addop
AfterAddopTerm == Active("parse_simple") /\ Top(S).pc = 3

\* parse_term has parsed the right operand of a mulop
AfterMulopFactor == Active("parse_term") /\ Top(S).pc = 2

\* C18: a binary `or` or `and` is accepted exactly when both operands are
\* the non-array boolean and a binary `+`, `-`, `/`, `*` or `rem` exactly
\* when both are the non-array integer; an array operand is rejected with
\* ERR_ILLEGAL_ARRAY_OPERATION naming the operator and an operand of the
\* wrong base with ERR_TYPE_MISMATCH for the operator, the left operand
\* checked before the right; this holds for every operator of a chain.
C18_BinaryOperators ==
    /\ [][AfterAddopTerm =>
             BinaryRule(Top(S).toktype, Top(S).t0, ret)]_vars
    /\ [][AfterMulopFactor =>
             BinaryRule(Top(S).toktype, Top(S).t0, ret)]_vars
    /\ [][(Active("parse_simple") /\ Top(S).pc = 2 /\ IS_ADDOP(token.type)) =>
             IF IS_ARRAY(ret) THEN RejectsArray(token.type)
             ELSE GoesOn /\ Top(S)'.fn = "parse_term"]_vars
    /\ [][(Active("parse_term") /\ Top(S).pc = 1 /\ IS_MULOP(token.type)) =>
             IF IS_ARRAY(ret) THEN RejectsArray(token.type)
             ELSE GoesOn /\ Top(S)'.fn = "parse_factor"]_vars

\* parse_simple has parsed the term after a leading unary minus
AfterNegatedTerm == Active("parse_simple") /\ Top(S).pc = 1

\* C19: parse_simple recognises `[ "-" ] term { addop term }` in full: after
\* a leading unary minus and its integer term, an addop that follows is
\* consumed and its term is parsed as part of the same simple expression,
\* and without an addop the simple expression ends with the type of the
\* term.
C19_SimpleInFull ==
    [][(AfterNegatedTerm /\ ret = TYPE_INTEGER) =>
          IF IS_ADDOP(token.type)
          THEN /\ GoesOn
               /\ Top(S)'.fn = "parse_term"
               /\ ntok' = ntok + 1
          ELSE Returns /\ ret' = ret]_vars

\* the operator a diagnostic d is about, as get_token_string prints it, or
\* NoArg when d is not an operator type error
OperatorOf(d) ==
    IF d.err = "ERR_TYPE_MISMATCH"
    THEN IF d.ctx = <<"for unary minus">> THEN get_token_string("TOK_MINUS")
         ELSE IF d.ctx = <<"for 'not'">> THEN get_token_string("TOK_NOT")
         ELSE IF Len(d.ctx) = 2 /\ d.ctx[1] = "for operator %s" THEN d.ctx[2]
         ELSE NoArg
    ELSE IF d.err = "ERR_ILLEGAL_ARRAY_OPERATION"
    THEN IF d.arg = "unary minus" THEN get_token_string("TOK_MINUS")
         ELSE IF d.arg = "'output'" THEN NoArg
         ELSE d.arg
    ELSE NoArg

\* token number k of the file (counted from 0) has been scanned, is the
\* operator op and begins at pos
OperatorAt(k, op, pos) ==
    /\ get_token_string(hist.toks[k + 1].type) = op
    /\ TokenPos(S, k) = pos

\* C20: every operator type error, ERR_TYPE_MISMATCH or
\* ERR_ILLEGAL_ARRAY_OPERATION for a binary addop, mulop or relop, for unary
\* minus or for `not`, is reported at the position where the operator token
\* begins.
C20_OperatorPosition ==
    (status = "rejected" /\ Len(diags) = 1 /\ OperatorOf(LastDiag) # NoArg)
    => \E k \in 0 .. Len(hist.toks) - 1 :
           OperatorAt(k, OperatorOf(LastDiag), LastDiag.pos)

\* the number of the first token `main` among the tokens scanned, or 0
FirstMain ==
    IF \E k \in 1 .. Len(hist.toks) : hist.toks[k].type = "TOK_MAIN"
    THEN CHOOSE k \in 1 .. Len(hist.toks) :
             /\ hist.toks[k].type = "TOK_MAIN"
             /\ \A j \in 1 .. k - 1 : hist.toks[j].type # "TOK_MAIN"
    ELSE 0

\* the tokens scanned follow the envelope: `program`, id, `:`, then an
\* identifier that opens a subroutine or `main`, one `main` with `:` after
\* it, and the end of input as the last token and nowhere else
Envelope ==
    LET toks == hist.toks
        m == FirstMain
    IN  /\ Len(toks) >= 7
        /\ toks[1].type = "TOK_PROGRAM"
        /\ toks[2].type = "TOK_ID"
        /\ toks[3].type = "TOK_COLON"
        /\ toks[4].type \in {"TOK_ID", "TOK_MAIN"}
        /\ m >= 4
        /\ \A k \in 1 .. Len(toks) : toks[k].type = "TOK_MAIN" => k = m
        /\ toks[m + 1].type = "TOK_COLON"
        /\ \A k \in 1 .. Len(toks) :
               toks[k].type = "TOK_EOF" <=> k = Len(toks)

\* a frame of routine fn is on the call stack
OnStack(fn) == \E k \in 1 .. Len(stack) : stack[k].fn = fn

\* parse_program is after the body of main
AfterMainBody == Active("parse_program") /\ Top(S).pc = 5

\* C21: a program is accepted only if its tokens follow the envelope
\* `program`, id, `:`, subroutine definitions, `main`, `:`, body, end of
\* input; a token other than the end of input after the body of main gives
\* the one diagnostic ERR_UNREACHABLE naming it; and no subroutine definition
\* is parsed after `main`.
C21_Envelope ==
    /\ [](status = "accepted" => Envelope /\ hist.unit = "main")
    /\ [][AfterMainBody =>
             IF token.type = "TOK_EOF"
             THEN Returns
             ELSE /\ status' = "rejected"
                  /\ diags' = <<NameDiag("ERR_UNREACHABLE",
                                         get_token_string(token.type),
                                         position)>>]_vars
    /\ [](FirstMain # 0 /\ Len(hist.toks) > FirstMain
             => ~OnStack("parse_subdef"))

\* an identifier after the body of main has been rejected as unreachable
C21_Witness ==
    /\ Rejected("ERR_UNREACHABLE")
    /\ hist.unit = "main"
    /\ token.type = "TOK_ID"
    /\ LastDiag.arg = "identifier"

\* the compile has been rejected at the first token, which is not `program`
NoProgram ==
    /\ Rejected("ERR_EXPECT")
    /\ ntok = 1
    /\ LastDiag.exptok = get_token_string("TOK_PROGRAM")

\* line 1, column 0
LineOneColumnZero == [line |-> 1, col |-> 0]

\* C22 as stated: whenever the first token of the input is not `program`,
\* be the input empty or not, the ERR_EXPECT diagnostic is at line 1,
\* column 0.
C22_AlwaysAtOrigin == NoProgram => LastDiag.pos = LineOneColumnZero

\* C22: when the input is empty the ERR_EXPECT diagnostic for the missing
\* `program` is at line 1, column 0, and when the input begins with another
\* token the diagnostic is at the position of that token.
C22_MissingProgram ==
    NoProgram =>
        /\ token.type # "TOK_PROGRAM"
        /\ LastDiag.fndtok = get_token_string(token.type)
        /\ LastDiag.pos = IF token.type = "TOK_EOF" THEN LineOneColumnZero
                          ELSE TokenPos(S, 0)

\* a file that begins at line 2, column 3 with a token other than `program`
\* has been rejected at that position
C22_Witness ==
    /\ NoProgram
    /\ token.type # "TOK_EOF"
    /\ origin0 = [line |-> 2, col |-> 3]
    /\ LastDiag.pos = origin0

\* parse_input is at the identifier n after `input (`
AtInputName(n) == Active("parse_input") /\ Top(S).pc = 2 /\ token = Id(n)

\* the step rejects with the one diagnostic err about name n at pos
RejectsAt(err, n, pos) ==
    status' = "rejected" /\ diags' = <<NameDiag(err, n, pos)>>

\* C23: for `input(x ...)` an undefined x gives ERR_UNKNOWN_IDENTIFIER;
\* `input(x[i])` with x not an array gives ERR_NOT_AN_ARRAY and with x an
\* array asks an integer i; `input(x)` with x an array gives
\* ERR_EXPECTED_SCALAR whose message names x; `input(x)` with a scalar x
\* goes on; and each of the three diagnostics names x at the position of x.
C23_Input ==
    /\ [][\A n \in AllNames :
             AtInputName(n) =>
                 LET prop == find_name(S, n)
                 IN  IF prop = NULL
                     THEN RejectsAt("ERR_UNKNOWN_IDENTIFIER", n, position)
                     ELSE IF token'.type = "TOK_LBRACK"
                     THEN IF IS_ARRAY(prop.type)
                          THEN GoesOn /\ Top(S)'.fn = "parse_index"
                          ELSE RejectsAt("ERR_NOT_AN_ARRAY", n, position)
                     ELSE IF IS_ARRAY(prop.type)
                     THEN RejectsAt("ERR_EXPECTED_SCALAR", n, position)
                     ELSE GoesOn]_vars
    /\ [][(Active("parse_index") /\ Top(S).pc = 1
              /\ stack[Len(stack) - 1].fn = "parse_input") =>
             IF ret = TYPE_INTEGER
             THEN ~(status' = "rejected" /\ Len(diags') = 1
                      /\ diags'[1].err = "ERR_TYPE_MISMATCH")
             ELSE /\ RejectsMismatch
                  /\ diags'[1].ctx =
                         <<"for array index of '%s'", Top(S).id>>]_vars

-----------------------------------------------------------------------------
(* The hash table on its own (SpecTable).                                   *)

TheTable == heap[1].ht

\* the step is an ht_insert of a key that was not in the table
InsertsNew ==
    /\ hist'.op = "ht_insert"
    /\ Len(hist'.first) = Len(hist.first) + 1

\* the step is an ht_insert of a key that was in the table
InsertsAgain ==
    /\ hist'.op = "ht_insert"
    /\ Len(hist'.first) = Len(hist.first)

IsPrime(n) == n > 1 /\ \A d \in 2 .. n - 1 : n % d # 0

SmallestPrimeAbove(n) ==
    CHOOSE q \in n + 1 .. 2 * n + 2 :
        IsPrime(q) /\ \A r \in n + 1 .. q - 1 : ~IsPrime(r)

LargestPrimeBelow(n) ==
    CHOOSE q \in 2 .. n - 1 :
        IsPrime(q) /\ \A r \in q + 1 .. n - 1 : ~IsPrime(r)

PowerOfTwoAtLeast(n) ==
    CHOOSE q \in {2 ^ k : k \in 2 .. 12} :
        q >= n /\ \A k \in 2 .. 12 : 2 ^ k >= n => q <= 2 ^ k

\* before the insert the load would exceed 0.75
WouldExceed == 4 * (TheTable.num_entries + 1) > 3 * TheTable.size

\* C24 as stated: from capacity 13, an insert of a new key that would make
\* (entries + 1) / capacity exceed 0.75 rehashes first, to the smallest prime
\* strictly greater than twice the old capacity, which at least doubles it.
C24_SmallestPrimeAboveDouble ==
    [][InsertsNew /\ WouldExceed =>
          /\ TheTable'.size = SmallestPrimeAbove(2 * TheTable.size)
          /\ TheTable'.size >= 2 * TheTable.size]_vars

\* C24 amended: the table starts with capacity 13; an insert of a new key
\* rehashes first exactly when (entries + 1) / capacity would exceed 0.75, and
\* the new capacity is the largest prime below twice the smallest power of
\* two that is at least the old capacity (13, 31, 61): the capacity grows,
\* but need not double. No other call changes the capacity.
C24_Capacity ==
    /\ TheTable.size = 13
    /\ [][/\ InsertsNew /\ WouldExceed =>
               /\ TheTable'.size =
                      LargestPrimeBelow(2 * PowerOfTwoAtLeast(TheTable.size))
               /\ TheTable'.size > TheTable.size
               /\ DOMAIN TheTable'.buckets = 0 .. TheTable'.size - 1
               /\ TheTable'.num_entries = TheTable.num_entries + 1
          /\ ~(InsertsNew /\ WouldExceed) =>
               TheTable'.size = TheTable.size]_vars

\* two rehashes have happened: 13 to 31 at the tenth key, 31 to 61 at the
\* twenty-fourth, which is less than twice 31
C24_Witness ==
    /\ hist.op = "ht_insert"
    /\ hist.rc = EXIT_SUCCESS
    /\ TheTable.num_entries = 24
    /\ TheTable.size = 61

\* the value the first ht_insert of key gave, NULL when there was none
FirstGiven(key) ==
    IF \E j \in 1 .. Len(hist.first) : hist.first[j].key = key
    THEN hist.first[CHOOSE j \in 1 .. Len(hist.first) :
                        hist.first[j].key = key].value
    ELSE NULL

\* the distinct keys ht_insert has been called with
KeysGiven == {hist.first[j].key : j \in 1 .. Len(hist.first)}

FiniteMap ==
    /\ \A i \in 1 .. Len(Keys) :
           ht_search(TheTable, Keys[i]) = FirstGiven(Keys[i])
    /\ hist.op = "ht_search" => ret = FirstGiven(hist.key)
    /\ TheTable.num_entries = Cardinality(KeysGiven)
    /\ 4 * TheTable.num_entries <= 3 * TheTable.size

\* C27: over any sequence of ht_insert calls on one table, ht_search of a key
\* returns the value given by the first insert of that key and NULL for a key
\* never inserted; an insert of a new key succeeds, a repeated insert returns
\* HASH_TABLE_KEY_VALUE_PAIR_EXISTS and changes nothing; num_entries is the
\* number of distinct keys; and after every insert num_entries / size is at
\* most 0.75, whether or not a rehash has happened in between.
C27_FiniteMap ==
    /\ []FiniteMap
    /\ [][/\ InsertsNew => hist'.rc = EXIT_SUCCESS
          /\ InsertsAgain =>
               /\ hist'.rc = HASH_TABLE_KEY_VALUE_PAIR_EXISTS
               /\ TheTable' = TheTable]_vars

\* the longest chain of the table
LongestChain ==
    CHOOSE n \in 0 .. TheTable.num_entries :
        /\ \E b \in DOMAIN TheTable.buckets : Len(TheTable.buckets[b]) = n
        /\ \A b \in DOMAIN TheTable.buckets : Len(TheTable.buckets[b]) <= n

\* after both rehashes, with keys sharing buckets, the key inserted first is
\* inserted again
C27_Witness ==
    /\ TheTable.size = 61
    /\ LongestChain >= 2
    /\ hist.op = "ht_insert"
    /\ hist.key = hist.first[1].key
    /\ hist.rc = HASH_TABLE_KEY_VALUE_PAIR_EXISTS
    /\ ht_search(TheTable, hist.key) = FirstValue(1)

-----------------------------------------------------------------------------
(* The parser (Spec), again.                                                *)

\* the body or the parameters of a subroutine are being parsed
InSub == status = "running" /\ hist.unit = "sub"

\* the parser is about to look up the identifier n of a call: a statement
\* that begins with n, or a factor n followed by `(`
CallOf(n) ==
    /\ token = Id(n)
    /\ \/ Active("parse_call") /\ Top(S).pc = 0
       \/ Active("parse_factor") /\ Top(S).pc = 0
             /\ token'.type = "TOK_LPAREN"

\* the step goes on to the argument list of n
EntersArglist(n) ==
    /\ status' = "running"
    /\ diags' = <<>>
    /\ Len(stack') = Len(stack) + 1
    /\ stack'[Len(stack')].fn = "parse_arglist"
    /\ stack'[Len(stack')].id = n

\* C26: inside a subroutine S, the name of S and of every subroutine defined
\* before it is found with its callable binding and no other name is found
\* but the parameters and locals of S; a call of S or of an earlier
\* subroutine is not rejected as unknown and goes on to its argument list (a
\* procedure as a statement, a function as a factor), and a call of a name
\* not defined so far is rejected with ERR_UNKNOWN_IDENTIFIER naming it at
\* its position; a local variable or a parameter of S named like S or like an
\* earlier subroutine is rejected with ERR_MULTIPLE_DEFINITION at its
\* position, and no scope is changed.
C26_Visibility ==
    /\ [](InSub =>
            /\ saved_table # NullTable /\ saved_table # table
            /\ \A n \in AllNames :
                   IF n \in SeqSet(hist.subs)
                   THEN /\ find_name(S, n) # NULL
                        /\ IS_CALLABLE_TYPE(find_name(S, n).type)
                        /\ Bound(saved_table, n) = {find_name(S, n)}
                        /\ Bound(table, n) = {}
                   ELSE n \notin SeqSet(hist.locals) =>
                            find_name(S, n) = NULL)
    /\ [][\A n \in AllNames :
              (InSub /\ CallOf(n)) =>
                  IF n \in SeqSet(hist.subs)
                  THEN /\ ~RejectsNaming("ERR_UNKNOWN_IDENTIFIER", n)
                       /\ (Active("parse_call")
                             /\ IS_PROCEDURE(find_name(S, n).type))
                              => EntersArglist(n)
                       /\ (Active("parse_factor")
                             /\ IS_FUNCTION(find_name(S, n).type))
                              => EntersArglist(n)
                  ELSE n \notin SeqSet(hist.locals) =>
                           /\ RejectsNaming("ERR_UNKNOWN_IDENTIFIER", n)
                           /\ diags'[1].pos = position]_vars
    /\ [][\A n \in SeqSet(hist.subs) :
              (InSub /\ VarDefOf(n)) =>
                  /\ RejectsNaming("ERR_MULTIPLE_DEFINITION", n)
                  /\ diags'[1].pos = position
                  /\ ScopesUnchanged]_vars
    /\ [][(/\ AtOpen
           /\ Top(S).subid \notin SeqSet(hist.subs)
           /\ \E k \in 1 .. Len(Top(S).head) :
                  Top(S).head[k].id \in SeqSet(hist.subs)
                                            \cup {Top(S).subid}) =>
              LET k == FirstClash(Top(S))
              IN  /\ RejectsNaming("ERR_MULTIPLE_DEFINITION",
                                   Top(S).head[k].id)
                  /\ diags'[1].pos = Top(S).head[k].pos]_vars

\* the first subroutine has called the second, whose definition is still
\* unread
C26_Witness ==
    /\ hist.scn = "forward"
    /\ hist.subs = <<"f">>
    /\ Rejected("ERR_UNKNOWN_IDENTIFIER")
    /\ LastDiag.arg = "g"
    /\ \E i \in 1 .. Len(pending) - 1 :
           pending[i] = Id("g") /\ pending[i + 1] = Kw("TOK_LPAREN")

\* the table at addr has not been released
Live(addr) == addr # NullTable => heap[addr].live

\* C25: when a compile is accepted, every block handed to a scope with a
\* name (the identifier string, the property record, and the parameter array
\* of every subroutine, procedure or function) has been freed, none has been
\* freed twice and every table has been released; and while the compile
\* runs, the active and the suspended scope are tables not yet released.
C25_ReleasedOnce ==
    /\ status = "accepted" =>
           /\ hist.owned \subseteq hist.freed
           /\ hist.twice = {}
           /\ \A a \in 1 .. Len(heap) : ~heap[a].live
    /\ (status = "running" /\ heap # <<>>) =>
           Live(table) /\ Live(saved_table)

====
